---- MODULE Spec2Model ----
(***************************************************************************)
(* Model of the H5P story map: the waypoint navigation core (Main, Map,    *)
(* GeoMap, Waypoint, NavigationBar, Button, ContentOverlay) and the        *)
(* per-waypoint content bundles with their tracking map.                   *)
(*                                                                         *)
(* JavaScript values that reach the code from outside (the persisted       *)
(* state, an index argument) are records [kind, num]: kind is the value's  *)
(* shape ("undefined", "null", "number", "NaN", "numericString" such as    *)
(* "2", "otherString" such as "abc") and num its numeric content.          *)
(***************************************************************************)
EXTENDS Integers, Sequences, FiniteSets, TLC

----------------------------------------------------------------------------
(* Bounds of the model *)

\* Largest number of waypoints a configuration holds.
MaxWaypoints == 4

\* The animation frame callbacks that can be pending at a time, where events
\* arrive between the frames.
MaxPending == 3

\* Largest number of waypoints where the embedded instances are followed.
MaxEmbedWaypoints == 2

\* Largest depth of nested event dispatch that is followed.
MaxDispatchDepth == 6

\* params.map.zoomLevelDefault of the configuration.
ZoomLevelDefault == 6

\* Width and height of the rendered map surface when it is visible.
MapWidth == 8
MapHeight == 4

----------------------------------------------------------------------------
(* Program constants *)

LATITUDE_MIN == -90
LATITUDE_MAX == 90
LONGITUDE_MIN == -180
LONGITUDE_MAX == 180
DEFAULT_ZOOM_LEVEL == 13
\* DEFAULT_COORDINATES = [69.6456737, 18.9501558], in whole degrees
DEFAULT_LATITUDE == 70
DEFAULT_LONGITUDE == 19
\* Zoom bounds the map capability reports (map.getMinZoom(), map.getMaxZoom())
MapMinZoom == 0
MapMaxZoom == 18
\* MAP_CENTER_X_PERCENTAGE, MAP_CENTER_X_PERCENTAGE_CONTENT_OPEN and the
\* GeoMap defaults, in percent
MAP_CENTER_X_PERCENTAGE == 50
MAP_CENTER_X_PERCENTAGE_CONTENT_OPEN == 25
DEFAULT_MAP_CENTER_X_PERCENTAGE == 50
DEFAULT_MAP_CENTER_Y_PERCENTAGE == 50

----------------------------------------------------------------------------
(* JavaScript values *)

Num(n) == [kind |-> "number", num |-> n]
NaN == [kind |-> "NaN", num |-> 0]
Undefined == [kind |-> "undefined", num |-> 0]
Null == [kind |-> "null", num |-> 0]
NumericString(n) == [kind |-> "numericString", num |-> n]
OtherString == [kind |-> "otherString", num |-> 0]

\* typeof v === 'number'
TypeofNumber(v) == v.kind \in {"number", "NaN"}

\* Whether ToNumber(v) is a number other than NaN, and that number.
HasNumericValue(v) == v.kind \in {"number", "numericString", "null"}
ToNumber(v) == IF v.kind = "null" THEN 0 ELSE v.num

\* v > n, v < n and v >= n for an integer n: false when v converts to NaN.
JsGreater(v, n) == HasNumericValue(v) /\ ToNumber(v) > n
JsLess(v, n) == HasNumericValue(v) /\ ToNumber(v) < n
JsGreaterEq(v, n) == HasNumericValue(v) /\ ToNumber(v) >= n

\* a >= b for two values
JsGreaterEqValue(a, b) ==
  HasNumericValue(a) /\ HasNumericValue(b) /\ ToNumber(a) >= ToNumber(b)

\* Whether v is truthy
Truthy(v) ==
  \/ v.kind = "number" /\ v.num # 0
  \/ v.kind \in {"numericString", "otherString"}

\* v - 1: numeric subtraction after conversion.
JsMinusOne(v) == IF HasNumericValue(v) THEN Num(ToNumber(v) - 1) ELSE NaN

\* v + 1: addition for numbers, concatenation for strings ("2" + 1 = "21").
JsPlusOne(v) ==
  CASE v.kind = "number" -> Num(v.num + 1)
    [] v.kind = "null" -> Num(1)
    [] v.kind = "numericString" -> NumericString(v.num * 10 + 1)
    [] v.kind = "otherString" -> OtherString
    [] OTHER -> NaN

\* v ?? d
Coalesce(v, d) == IF v.kind \in {"undefined", "null"} THEN d ELSE v

\* sanitizeNumber(value, defaultValue, min, max): min and max are JavaScript
\* values (Undefined when the caller passes none); the result is a number.
SanitizeNumber(value, defaultValue, min, max) ==
  LET result == IF value.kind = "numericString" THEN Num(value.num)
                ELSE IF value.kind = "otherString" THEN NaN
                ELSE value
  IN IF result.kind # "number" THEN defaultValue
     ELSE IF min.kind = "number" /\ result.num < min.num THEN min.num
     ELSE IF max.kind = "number" /\ result.num > max.num THEN max.num
     ELSE result.num

----------------------------------------------------------------------------
(* Configuration: params.map.waypoints *)

\* Titles an author can give, by position; the waypoint at every third
\* position is given no title.
TitleNames == <<"Start", "Harbour", "", "Summit", "Lake", "", "End">>
ParamsTitle(i) == IF i + 1 <= Len(TitleNames) THEN TitleNames[i + 1] ELSE ""
\* dictionary.get('l10n.unnamedWaypoint')
UnnamedWaypoint == "Unnamed waypoint"

ParamsLatitude(i) == 10 * i - 10
ParamsLongitude(i) == 20 * i - 30

\* Values a configuration can hold as the latitude and as the longitude of a
\* waypoint.
ConfiguredLatitudes == {Num(45), Num(91), Undefined}
ConfiguredLongitudes == {Num(7), Num(-181)}

\* The constructor of Waypoint: extend() puts the given parameters over the
\* defaults (latitude 0, longitude 0), leaving a default where the given
\* value is undefined.
Waypoint(waypointParams) ==
  [index |-> waypointParams.index,
   latitude |-> IF waypointParams.latitude = Undefined THEN Num(0)
                ELSE waypointParams.latitude,
   longitude |-> IF waypointParams.longitude = Undefined THEN Num(0)
                 ELSE waypointParams.longitude]

\* GeoMap.addWaypoint(params): the waypoint is built from the parameters as
\* they are and pushed to GeoMap.waypoints.
AddWaypoint(registered, params) ==
  Append(registered,
         Waypoint([index |-> params.index, latitude |-> params.latitude,
                   longitude |-> params.longitude]))

\* GeoMap.waypoints after buildMap has added the first count waypoints of
\* the configuration, each with its index.
RECURSIVE RegisteredWaypoints(_)
RegisteredWaypoints(count) ==
  IF count = 0 THEN <<>>
  ELSE AddWaypoint(RegisteredWaypoints(count - 1),
                   [index |-> count - 1,
                    latitude |-> Num(ParamsLatitude(count - 1)),
                    longitude |-> Num(ParamsLongitude(count - 1))])

\* params.contents of the waypoint at position i: the kind of instance each
\* content gives: a task, passive content, or none (H5P.newRunnable fails).
ContentPatterns ==
  <<  <<"passive">>, <<"task", "passive", "task">>, <<>>,
      <<"task", "broken", "passive">>  >>
ParamsContents(i) == ContentPatterns[(i % Len(ContentPatterns)) + 1]
ContentIndexes(i) == 0 .. (Len(ParamsContents(i)) - 1)
ContentKind(i, index) == ParamsContents(i)[index + 1]

\* A faulty addContent: a content without an instance is kept in instances.
InstancesWithFailed(i) == ContentIndexes(i)

\* ContentBundle.instances of waypoint i: the contents H5P.newRunnable
\* returned an instance for.
Instances(i) == {index \in ContentIndexes(i) : ContentKind(i, index) # "broken"}

----------------------------------------------------------------------------
VARIABLES
  waypointCount,             \* params.map.waypoints.length
  waypoints,                 \* GeoMap.waypoints: the registered waypoints
  button,                    \* a Button other than left, right and mini-map
  openWaypointContentIndex,  \* Main.openWaypointContentIndex
  markerIsOpen,              \* Waypoint.markerIsOpen, by waypoint index
  buttonDisabled,            \* Button.disabled of the left and right button
  progressText,              \* ProgressIndicator.progressText.innerText
  view,                      \* centre and zoom of the Leaflet map
  mapSize,                   \* GeoMap.getSize(): the rendered surface
  overlay,                   \* ContentOverlay: shown or not, and its content
  progressTextMode,          \* ProgressIndicator: text shown instead of numbers
  trackingMap,               \* ContentBundle.trackingMap, by waypoint index
  userCanUseMiniMap,         \* params.behaviour.userCanUseMiniMap
  minimapActive,             \* Button.active of the mini-map button
  miniMapVisible,            \* GeoMap.miniMapVisible
  paramsZoomLevel,           \* GeoMap.params.zoomLevel
  contentHidden,             \* ContentBundle: its DOM has the class 'hidden'
  frames,                    \* the animation frame callbacks that are pending
  observers,                 \* callOnceVisible of each embedded instance
  dispatch,                  \* the 'resize' events the last operation triggered
  lastCall,                  \* the operation that ran last
  effects                    \* what the last operation sent to collaborators

vars == <<waypointCount, waypoints, button, openWaypointContentIndex, markerIsOpen, buttonDisabled,
          progressText, progressTextMode, view, mapSize, overlay, trackingMap,
          userCanUseMiniMap, minimapActive, miniMapVisible, paramsZoomLevel,
          contentHidden, frames, observers, dispatch, lastCall, effects>>

Waypoints == 0 .. (waypointCount - 1)

\* Main.lastMarkerIndex
lastMarkerIndex == waypointCount - 1

\* Waypoint.getTitle(): the configured title or the placeholder.
GetTitle(i) == IF ParamsTitle(i) = "" THEN UnnamedWaypoint ELSE ParamsTitle(i)

\* GeoMap.params.zoomLevel as the constructors of Map and GeoMap leave it,
\* given the zoom level of the previous state.
ConstructorZoomLevel(previousZoomLevel) ==
  SanitizeNumber(Coalesce(previousZoomLevel, Num(ZoomLevelDefault)),
                 DEFAULT_ZOOM_LEVEL, Undefined, Undefined)

----------------------------------------------------------------------------
(* The handlers, as functions of the controller state s: a record with the *)
(* fields openWaypointContentIndex, markerIsOpen, buttonDisabled,          *)
(* progressText, progressTextMode, view, overlay, minimapActive,           *)
(* miniMapVisible and effects.                                             *)

\* An entry of effects: a Screenreader.read ("read") or a request to centre
\* the map on a waypoint ("center"), with the open index at that moment.
ReadEffect(title, openIndex) ==
  [type |-> "read", waypoint |-> -1, title |-> title, xPercentage |-> 0,
   openIndex |-> openIndex]
CenterEffect(waypoint, xPercentage, openIndex) ==
  [type |-> "center", waypoint |-> waypoint, title |-> "",
   xPercentage |-> xPercentage, openIndex |-> openIndex]

\* An effect: an animation frame callback has run updateSizeProperties().
UpdateSizeEffect(openIndex) ==
  [type |-> "updateSizeProperties", waypoint |-> -1, title |-> "", xPercentage |-> 0,
   openIndex |-> openIndex]

\* window.requestAnimationFrame(callback): the callback is entered in the
\* list of pending callbacks, with the waypoint it is about (-1 for none).
RequestAnimationFrame(s, callback, waypoint) ==
  [s EXCEPT !.frames = Append(@, [callback |-> callback, waypoint |-> waypoint])]

\* GeoMap.resize(), reached from Main.resize() and Map.resize():
\* window.clearTimeout(this.pinWrapperTimeout) is given the handle of an
\* animation frame request, which no timer has, so the pending callback
\* stays; then a callback running updateSizeProperties() is requested.
GeoMapResize(s) == RequestAnimationFrame(s, "updateSizeProperties", -1)

\* The embedded instances: the contents of the waypoints' bundles that
\* H5P.newRunnable returned an instance for, as <<waypoint, index>>.
EmbeddedInstances ==
  UNION {{<<w, index>> : index \in Instances(w)} : w \in Waypoints}

\* callOnceVisible as addContent leaves it for every instance: the idle
\* callback is requested, the callback has not run, and no report of the
\* wrapper as intersecting has come in.
ConstructedObservers ==
  [id \in EmbeddedInstances |->
     [phase |-> "idle", callbackRuns |-> 0, reported |-> FALSE]]

\* No 'resize' event triggered: mainInstance.bubblingUpwards, the number of
\* 'resize' events triggered on the story map, the embedded instances
\* 'resize' was triggered on, in that order, and whether the dispatch was cut
\* off at the depth MaxDispatchDepth.
NoDispatch ==
  [bubblingUpwards |-> FALSE, main |-> 0, instance |-> <<>>, exhausted |-> FALSE]

\* How often 'resize' was triggered on an instance in a dispatch.
Triggered(d, id) == Cardinality({k \in DOMAIN d.instance : d.instance[k] = id})

\* ContentBundle.dom.isConnected: the bundle of the waypoint is the content
\* of the overlay (ContentOverlay.setContent replaces what was there).
IsConnected(s, w) == s.overlay.content = w

RECURSIVE TriggerMainResize(_, _)
RECURSIVE TriggerInstanceResize(_, _, _)
RECURSIVE BubbleDownAll(_, _, _)

\* The listener ContentBundle.bubbleUp puts on an instance: the event is
\* triggered on the story map with bubblingUpwards set.
BubbleUp(s, id, depth) ==
  IF ~IsConnected(s, id[1]) THEN s
  ELSE LET s1 == [s EXCEPT !.dispatch.bubblingUpwards = TRUE]
           s2 == TriggerMainResize(s1, depth)
       IN [s2 EXCEPT !.dispatch.bubblingUpwards = FALSE]

\* A faulty bubbleDown listener: bubblingUpwards is not looked at.
BubbleDownAlways(s, id, depth) ==
  IF ~IsConnected(s, id[1]) THEN s ELSE TriggerInstanceResize(s, id, depth)

\* The listener ContentBundle.bubbleDown puts on the story map for an
\* instance.
BubbleDown(s, id, depth) ==
  IF s.dispatch.bubblingUpwards THEN s
  ELSE IF ~IsConnected(s, id[1]) THEN s
  ELSE TriggerInstanceResize(s, id, depth)

\* instance.trigger('resize'): the listeners of the instance run, which are
\* there once the callback of callOnceVisible has run.
TriggerInstanceResize(s, id, depth) ==
  IF depth = 0 THEN [s EXCEPT !.dispatch.exhausted = TRUE]
  ELSE LET s1 == [s EXCEPT !.dispatch.instance = Append(@, id)]
       IN IF s1.observers[id].callbackRuns > 0 THEN BubbleUp(s1, id, depth - 1) ELSE s1

\* The bubbleDown listeners of the given instances run one after the other,
\* in the order of the waypoints and of the contents of a waypoint.
BubbleDownAll(s, ids, depth) ==
  IF ids = {} THEN s
  ELSE LET id == CHOOSE first \in ids :
                   \A other \in ids :
                     first[1] * 10 + first[2] <= other[1] * 10 + other[2]
       IN BubbleDownAll(BubbleDown(s, id, depth), ids \ {id}, depth)

\* StoryMap.trigger('resize'): the listener of StoryMap.attach calls
\* Main.resize(), then the bubbleDown listeners of the attached instances
\* run.
TriggerMainResize(s, depth) ==
  IF depth = 0 THEN [s EXCEPT !.dispatch.exhausted = TRUE]
  ELSE BubbleDownAll(GeoMapResize([s EXCEPT !.dispatch.main = @ + 1]),
                     {id \in DOMAIN s.observers : s.observers[id].callbackRuns > 0},
                     depth - 1)

\* The global resize: the 'resize' event of the story map is triggered.
TriggerResize(s) == TriggerMainResize(s, MaxDispatchDepth)

\* The callback ContentBundle.addContent gives to callOnceVisible: the
\* instance is attached, the bubbling listeners are put on and 'resize' is
\* triggered on the instance.
AttachInstance(s, id) ==
  TriggerInstanceResize([s EXCEPT !.observers[id].callbackRuns = @ + 1],
                        id, MaxDispatchDepth)

\* callOnceVisible, the idle callback: the observer is made and observes the
\* wrapper.
IdleCallback(s, id) ==
  IF s.observers[id].phase = "idle"
  THEN [s EXCEPT !.observers[id].phase = "observing"] ELSE s

\* A faulty observer callback: the observer goes on observing.
ObserverCallbackObserving(s, id, entries) ==
  LET s1 == [s EXCEPT !.observers[id].reported =
                        @ \/ \E k \in DOMAIN entries : entries[k]]
  IN IF entries[1] THEN AttachInstance(s1, id) ELSE s1

\* callOnceVisible, the callback of the IntersectionObserver: entries holds
\* isIntersecting of each entry. reported notes that an entry reported the
\* wrapper as intersecting.
ObserverCallback(s, id, entries) ==
  LET s1 == [s EXCEPT !.observers[id].reported =
                        @ \/ \E k \in DOMAIN entries : entries[k]]
  IN IF entries[1]
     THEN AttachInstance([s1 EXCEPT !.observers[id].phase = "disconnected"], id)
     ELSE s1

\* A faulty showContentDOM(): the bundle stays hidden.
ShowContentDOMKeepingHidden(s, waypoint) == RequestAnimationFrame(s, "resize", -1)

\* Waypoint.showContentDOM() and ContentBundle.show(): the bundle is shown
\* and a callback calling the global resize is requested.
ShowContentDOM(s, waypoint) ==
  RequestAnimationFrame([s EXCEPT !.contentHidden[waypoint] = FALSE], "resize", -1)

\* An animation frame callback runs. The global resize triggers the 'resize'
\* event of the story map, whose listener calls Main.resize().
RunCallback(s, frame) ==
  IF frame.callback = "showContentDOM" THEN ShowContentDOM(s, frame.waypoint)
  ELSE IF frame.callback = "resize" THEN TriggerResize(s)
  ELSE [s EXCEPT !.effects = Append(@, UpdateSizeEffect(s.openWaypointContentIndex))]

RECURSIVE RunCallbacks(_, _)
RunCallbacks(s, callbacks) ==
  IF callbacks = <<>> THEN s
  ELSE RunCallbacks(RunCallback(s, Head(callbacks)), Tail(callbacks))

\* The browser's animation frame: the callbacks pending at its start run in
\* the order of their requests; what they request is for the next frame.
AnimationFrameRun(s) == RunCallbacks([s EXCEPT !.frames = <<>>], s.frames)

\* Animation frames pass until no callback is pending; the effects and the
\* dispatch kept are those of the handler.
RECURSIVE Settled(_)
Settled(s) == IF s.frames = <<>> THEN s ELSE Settled(AnimationFrameRun(s))
Settle(s) == [Settled(s) EXCEPT !.effects = s.effects, !.dispatch = s.dispatch]

\* A faulty getWaypointByIndex: a number outside the positions wraps around.
GetWaypointByIndexWrapping(index) ==
  IF index.kind = "number" /\ waypointCount > 0 THEN index.num % waypointCount ELSE -1

\* An entry of effects for a TypeError the handler raised: the handler ends
\* there, with what it had done until then.
Throw(s) ==
  [s EXCEPT !.effects =
     Append(@, [type |-> "throw", waypoint |-> -1, title |-> "TypeError",
                xPercentage |-> 0, openIndex |-> s.openWaypointContentIndex])]
Threw(s) == \E k \in DOMAIN s.effects : s.effects[k].type = "throw"

\* GeoMap.getWaypointByIndex(index): the waypoint (its index) or -1 for null.
GetWaypointByIndex(index) ==
  IF ~TypeofNumber(index) \/ JsLess(index, 0) \/ JsGreaterEq(index, waypointCount)
  THEN -1
  ELSE IF \E w \in Waypoints : index = Num(w)
       THEN CHOOSE w \in Waypoints : index = Num(w)
       ELSE -1

\* Button.enable() and Button.disable() of the button with the given id.
EnableButton(s, id) == [s EXCEPT !.buttonDisabled[id] = FALSE]
DisableButton(s, id) == [s EXCEPT !.buttonDisabled[id] = TRUE]

\* ProgressIndicator.update({text}): text is [isString, value].
ProgressIndicatorUpdate(s, text) ==
  [s EXCEPT !.progressText = IF text.isString THEN text.value ELSE @]

\* ProgressIndicator.toggleTextMode(on)
ToggleTextMode(s, on) == [s EXCEPT !.progressTextMode = on]

\* NavigationBar.update({left, right, text}): left and right are "true",
\* "false" or "undefined".
NavigationBarUpdate(s, left, right, text) ==
  LET s1 == IF left = "true" THEN EnableButton(s, "left")
            ELSE IF left = "false" THEN DisableButton(s, "left") ELSE s
      s2 == IF right = "true" THEN EnableButton(s1, "right")
            ELSE IF right = "false" THEN DisableButton(s1, "right") ELSE s1
  IN ProgressIndicatorUpdate(s2, text)

BooleanParam(b) == IF b THEN "true" ELSE "false"

\* A faulty updateButtonDisabledStates: the right button is compared with <=.
UpdateButtonDisabledStatesOffByOne(s) ==
  NavigationBarUpdate(s,
    BooleanParam(JsGreater(s.openWaypointContentIndex, 0)),
    BooleanParam(JsLess(s.openWaypointContentIndex, lastMarkerIndex + 1)),
    IF GetWaypointByIndex(s.openWaypointContentIndex) # -1
    THEN [isString |-> TRUE,
          value |-> GetTitle(GetWaypointByIndex(s.openWaypointContentIndex))]
    ELSE [isString |-> FALSE, value |-> ""])

\* Main.updateButtonDisabledStates()
UpdateButtonDisabledStates(s) ==
  LET waypoint == GetWaypointByIndex(s.openWaypointContentIndex)
      title == IF waypoint # -1
               THEN [isString |-> TRUE, value |-> GetTitle(waypoint)]
               ELSE [isString |-> FALSE, value |-> ""]
  IN NavigationBarUpdate(s,
       BooleanParam(JsGreater(s.openWaypointContentIndex, 0)),
       BooleanParam(JsLess(s.openWaypointContentIndex, lastMarkerIndex)),
       title)

\* A faulty handleWaypointContentOpened: nothing is read to the screen reader.
HandleWaypointContentOpenedSilent(s, index) ==
  UpdateButtonDisabledStates([s EXCEPT !.openWaypointContentIndex = Num(index)])

\* Main.handleWaypointContentOpened(index)
HandleWaypointContentOpened(s, index) ==
  LET s1 == [s EXCEPT !.openWaypointContentIndex = Num(index)]
      s2 == UpdateButtonDisabledStates(s1)
      waypoint == GetWaypointByIndex(Num(index))
      title == IF waypoint # -1 THEN GetTitle(waypoint) ELSE ""
  IN [s2 EXCEPT !.effects =
        Append(@, ReadEffect(title, s2.openWaypointContentIndex))]

\* A faulty setOpenWaypoint: the other waypoints are left as they are.
SetOpenWaypointKeepingOthers(s, waypoint) ==
  [s EXCEPT !.markerIsOpen[waypoint] = TRUE]

\* GeoMap.setOpenWaypoint(waypoint)
SetOpenWaypoint(s, waypoint) ==
  [s EXCEPT !.markerIsOpen = [w \in Waypoints |-> w = waypoint]]

\* map.latLngToContainerPoint and map.containerPointToLatLng of the map
\* capability, as a linear projection of one pixel per degree around the
\* centre of the surface.
LatLngToContainerPoint(latLng, center) ==
  [x |-> (mapSize.width \div 2) + (latLng.longitude - center.longitude),
   y |-> (mapSize.height \div 2) - (latLng.latitude - center.latitude)]
ContainerPointToLatLng(point, center) ==
  [latitude |-> center.latitude - (point.y - (mapSize.height \div 2)),
   longitude |-> center.longitude + (point.x - (mapSize.width \div 2))]

\* map.setZoom keeps the zoom within the capability's bounds.
LimitZoom(zoom) ==
  IF zoom < MapMinZoom THEN MapMinZoom
  ELSE IF zoom > MapMaxZoom THEN MapMaxZoom ELSE zoom

\* GeoMap.panTo(coordinates, options): zoomLevel is options.zoomLevel.
PanTo(s, coordinates, zoomLevel) ==
  LET latitude == SanitizeNumber(Num(coordinates.latitude), DEFAULT_LATITUDE,
                                 Num(LATITUDE_MIN), Num(LATITUDE_MAX))
      longitude == SanitizeNumber(Num(coordinates.longitude), DEFAULT_LONGITUDE,
                                  Num(LONGITUDE_MIN), Num(LONGITUDE_MAX))
  IN [s EXCEPT !.view =
        [latitude |-> latitude, longitude |-> longitude,
         zoomLevel |-> IF zoomLevel.kind = "number" /\ zoomLevel.num # 0
                       THEN LimitZoom(zoomLevel.num) ELSE @.zoomLevel]]

\* GeoMap.centerOnWaypoint(id, {positionXPercentage, zoomLevel}), percentages
\* in percent. The request is entered in effects.
GeoMapCenterOnWaypoint(s, waypoint, positionXPercentage, zoomLevel) ==
  LET xPercentage == SanitizeNumber(positionXPercentage,
                                    DEFAULT_MAP_CENTER_X_PERCENTAGE, Num(0), Num(100))
      yPercentage == SanitizeNumber(Undefined,
                                    DEFAULT_MAP_CENTER_Y_PERCENTAGE, Num(0), Num(100))
      s1 == [s EXCEPT !.effects =
               Append(@, CenterEffect(waypoint, xPercentage, s.openWaypointContentIndex))]
      center == [latitude |-> s.view.latitude, longitude |-> s.view.longitude]
      markerLatLng == [latitude |-> ParamsLatitude(waypoint),
                       longitude |-> ParamsLongitude(waypoint)]
      targetPoint == [x |-> (mapSize.width * xPercentage) \div 100,
                      y |-> (mapSize.height * yPercentage) \div 100]
      markerPoint == LatLngToContainerPoint(markerLatLng, center)
      offset == [x |-> targetPoint.x - markerPoint.x, y |-> targetPoint.y - markerPoint.y]
      centerPoint == LatLngToContainerPoint(center, center)
      newCenterPoint == [x |-> centerPoint.x - offset.x, y |-> centerPoint.y - offset.y]
      newCenterLatLng == ContainerPointToLatLng(newCenterPoint, center)
  IN IF mapSize.width = 0 \/ mapSize.height = 0 THEN s1
     ELSE IF waypoint \notin Waypoints THEN s1
     ELSE PanTo(s1, newCenterLatLng, zoomLevel)

\* Map.centerOnWaypoint(waypoint, contentOpen)
MapCenterOnWaypoint(s, waypoint, contentOpen) ==
  IF waypoint = -1 THEN s
  ELSE GeoMapCenterOnWaypoint(s, waypoint,
         Num(IF contentOpen THEN MAP_CENTER_X_PERCENTAGE_CONTENT_OPEN
             ELSE MAP_CENTER_X_PERCENTAGE),
         Undefined)

\* A faulty onMarkerFocus: the waypoint is marked open as well.
OnMarkerFocusOpening(s, waypoint) ==
  SetOpenWaypoint(MapCenterOnWaypoint(s, waypoint, TRUE), waypoint)

\* The onMarkerFocus callback of Main: its second argument compares the
\* method getCurrentOpenWaypointContentIndex itself (not its result) with -1,
\* which is true whatever is open.
OnMarkerFocus(s, waypoint) == MapCenterOnWaypoint(s, waypoint, TRUE)

\* A faulty openWaypointContent: options.panTo is not looked at.
OpenWaypointContentAlwaysPanning(s, waypoint, panToFalse) ==
  IF waypoint = -1 \/ s.markerIsOpen[waypoint] THEN s
  ELSE LET s1 == SetOpenWaypoint(s, waypoint)
           s2 == RequestAnimationFrame(
                   [s1 EXCEPT !.contentHidden[waypoint] = TRUE,
                              !.overlay = [visible |-> TRUE, content |-> waypoint]],
                   "showContentDOM", waypoint)
       IN OnMarkerFocus(HandleWaypointContentOpened(s2, waypoint), waypoint)

\* A faulty openWaypointContent: a waypoint that is open is opened again.
OpenWaypointContentAgain(s, waypoint, panToFalse) ==
  IF waypoint = -1 THEN s
  ELSE LET s1 == SetOpenWaypoint(s, waypoint)
           s2 == RequestAnimationFrame(
                   [s1 EXCEPT !.contentHidden[waypoint] = TRUE,
                              !.overlay = [visible |-> TRUE, content |-> waypoint]],
                   "showContentDOM", waypoint)
           s3 == HandleWaypointContentOpened(s2, waypoint)
       IN IF panToFalse THEN s3 ELSE OnMarkerFocus(s3, waypoint)

\* A faulty openWaypointContent: the overlay is given the content and not
\* shown.
OpenWaypointContentWithoutOverlay(s, waypoint, panToFalse) ==
  IF waypoint = -1 \/ s.markerIsOpen[waypoint] THEN s
  ELSE LET s1 == SetOpenWaypoint(s, waypoint)
           s2 == RequestAnimationFrame(
                   [s1 EXCEPT !.contentHidden[waypoint] = TRUE,
                              !.overlay.content = waypoint],
                   "showContentDOM", waypoint)
           s3 == HandleWaypointContentOpened(s2, waypoint)
       IN IF panToFalse THEN s3 ELSE OnMarkerFocus(s3, waypoint)

\* Map.openWaypointContent(waypoint, options): panToFalse is
\* options.panTo === false.
OpenWaypointContent(s, waypoint, panToFalse) ==
  IF waypoint = -1 \/ s.markerIsOpen[waypoint] THEN s
  ELSE LET s1 == SetOpenWaypoint(s, waypoint)
           s2 == RequestAnimationFrame(
                   [s1 EXCEPT !.contentHidden[waypoint] = TRUE,
                              !.overlay = [visible |-> TRUE, content |-> waypoint]],
                   "showContentDOM", waypoint)
           s3 == HandleWaypointContentOpened(s2, waypoint)
       IN IF panToFalse THEN s3 ELSE OnMarkerFocus(s3, waypoint)

\* Map.openWaypointContentByIndex(index, options)
OpenWaypointContentByIndex(s, index, panToFalse) ==
  LET waypoint == GetWaypointByIndex(index)
  IN IF waypoint = -1 THEN s ELSE OpenWaypointContent(s, waypoint, panToFalse)

\* GeoMap.addWaypoint, the marker's keydown listener: Enter and space
\* activate the marker (onMarkerClick is Map.openWaypointContent).
MarkerKeydown(s, waypoint, key) ==
  IF key = "Enter" \/ key = " " THEN OpenWaypointContent(s, waypoint, FALSE) ELSE s

\* GeoMap.addWaypoint, the focus listener of the marker's element:
\* usingMouse is isUsingMouse() || isUsingMouse('.h5peditor-storymap').
MarkerDOMFocus(s, waypoint, usingMouse) ==
  IF usingMouse THEN OpenWaypointContent(s, waypoint, FALSE)
  ELSE OnMarkerFocus(s, waypoint)

\* Main.goBackward() and Main.goForward()
GoBackward(s) ==
  OpenWaypointContentByIndex(s, JsMinusOne(s.openWaypointContentIndex), FALSE)
GoForward(s) ==
  OpenWaypointContentByIndex(s, JsPlusOne(s.openWaypointContentIndex), FALSE)

\* A faulty setView: the values are not clamped to their ranges.
SetViewUnclamped(s, coordinates, zoomLevel) ==
  [s EXCEPT !.view =
     [latitude |-> SanitizeNumber(coordinates.latitude, DEFAULT_LATITUDE,
                                  Undefined, Undefined),
      longitude |-> SanitizeNumber(coordinates.longitude, DEFAULT_LONGITUDE,
                                   Undefined, Undefined),
      zoomLevel |-> SanitizeNumber(zoomLevel, DEFAULT_ZOOM_LEVEL,
                                   Undefined, Undefined)]]

\* A faulty setView: a value that is no number leaves the field of the view
\* as it was.
SetViewKeepingLastKnown(s, coordinates, zoomLevel) ==
  LET IsNumeric(value) == value.kind \in {"number", "numericString"}
  IN [s EXCEPT !.view =
        [latitude |-> IF IsNumeric(coordinates.latitude)
                      THEN SanitizeNumber(coordinates.latitude, DEFAULT_LATITUDE,
                                          Num(LATITUDE_MIN), Num(LATITUDE_MAX))
                      ELSE s.view.latitude,
         longitude |-> IF IsNumeric(coordinates.longitude)
                       THEN SanitizeNumber(coordinates.longitude, DEFAULT_LONGITUDE,
                                           Num(LONGITUDE_MIN), Num(LONGITUDE_MAX))
                       ELSE s.view.longitude,
         zoomLevel |-> IF IsNumeric(zoomLevel)
                       THEN SanitizeNumber(zoomLevel, DEFAULT_ZOOM_LEVEL,
                                           Num(MapMinZoom), Num(MapMaxZoom))
                       ELSE s.view.zoomLevel]]

\* GeoMap.setView(coordinates, zoomLevel): coordinates holds the JavaScript
\* values of its latitude and longitude.
SetView(s, coordinates, zoomLevel) ==
  [s EXCEPT !.view =
     [latitude |-> SanitizeNumber(coordinates.latitude, DEFAULT_LATITUDE,
                                  Num(LATITUDE_MIN), Num(LATITUDE_MAX)),
      longitude |-> SanitizeNumber(coordinates.longitude, DEFAULT_LONGITUDE,
                                   Num(LONGITUDE_MIN), Num(LONGITUDE_MAX)),
      zoomLevel |-> SanitizeNumber(zoomLevel, DEFAULT_ZOOM_LEVEL,
                                   Num(MapMinZoom), Num(MapMaxZoom))]]

\* Map.setCurrentState(state) for a state that is an object or undefined
\* (a null state makes it throw, see MainSetCurrentState).
MapSetCurrentState(s, state) ==
  IF state.kind = "undefined"
       \/ state.coordinates.latitude.kind = "undefined"
       \/ state.coordinates.longitude.kind = "undefined"
  THEN s
  ELSE SetView(s, state.coordinates, state.zoomLevel)

\* GeoMap.toggleMiniMapVisibility(state): state is "true", "false" or
\* "undefined" (no boolean: the visibility is inverted).
ToggleMiniMapVisibility(s, state) ==
  [s EXCEPT !.miniMapVisible = IF state = "undefined" THEN ~@ ELSE state = "true"]

\* Main.toggleMiniMap() and Map.toggleMiniMap(): the visibility is inverted,
\* then resize().
MapToggleMiniMap(s) == GeoMapResize(ToggleMiniMapVisibility(s, "undefined"))

\* The constructor of Button with params.type, params.active and
\* params.disabled: activate() or deactivate(), then disable() or enable().
\* onClickCalls counts the calls of callbacks.onClick by the last operation.
ButtonConstructor(type, active, disabled) ==
  [type |-> type, active |-> active, disabled |-> disabled, onClickCalls |-> 0]

\* Button.activate() (active is TRUE) and Button.deactivate() (active is
\* FALSE): both return at once when the button is disabled.
SetActive(b, active) ==
  IF b.disabled THEN b ELSE [b EXCEPT !.active = active]

\* Button.enable(): activate() or deactivate() with the state the button has.
Enable(b) == SetActive([b EXCEPT !.disabled = FALSE], b.active)

\* Button.disable()
Disable(b) == [b EXCEPT !.disabled = TRUE]

\* Button.toggle(shouldBeActive, {ignoreDisabled}): shouldBeActive is "true",
\* "false" or "undefined".
Toggle(b, shouldBeActive, ignoreDisabled) ==
  IF ~ignoreDisabled /\ b.disabled THEN b
  ELSE SetActive(b, IF shouldBeActive = "undefined" THEN ~b.active
                    ELSE shouldBeActive = "true")

\* Button.forceState(active, skipCallback)
ButtonForceState(b, active, skipCallback) ==
  LET b1 == IF b.type = "toggle" THEN Toggle(b, BooleanParam(active), TRUE) ELSE b
  IN IF skipCallback THEN b1 ELSE [b1 EXCEPT !.onClickCalls = @ + 1]

\* The click listener of the button.
ButtonClickListener(b) ==
  IF b.disabled THEN b
  ELSE [(IF b.type = "toggle" THEN Toggle(b, "undefined", FALSE) ELSE b)
          EXCEPT !.onClickCalls = @ + 1]

\* Button.toggle(shouldBeActive, options) of the mini-map button, which is
\* never disabled: shouldBeActive is "true", "false" or "undefined".
ButtonToggle(s, shouldBeActive) ==
  [s EXCEPT !.minimapActive =
     IF shouldBeActive = "undefined" THEN ~@ ELSE shouldBeActive = "true"]

\* Button.forceState(active) of the mini-map button (type 'toggle'), with the
\* callback not skipped: onClick is onClickButtonMiniMap.
ForceState(s, active) == MapToggleMiniMap(ButtonToggle(s, BooleanParam(active)))

\* The click listener of the mini-map button.
MiniMapButtonClick(s) == MapToggleMiniMap(ButtonToggle(s, "undefined"))

\* NavigationBar.setCurrentState(state): state has the kind "undefined",
\* "null" or "object" and minimapActive "true", "false" or "undefined".
\* Without a mini-map button the state is not read; with one, reading
\* minimapActive of null throws.
NavigationBarSetCurrentState(s, state) ==
  IF ~userCanUseMiniMap THEN s
  ELSE IF state.kind = "null" THEN Throw(s)
  ELSE IF state.kind = "object" /\ state.minimapActive = "true" THEN ForceState(s, TRUE)
  ELSE s

\* Main.setCurrentState(state). Reading state.coordinates of a null map state
\* throws, as NavigationBar.setCurrentState can: the call ends there.
MainSetCurrentState(s, state) ==
  LET s1 == [s EXCEPT !.openWaypointContentIndex =
               Coalesce(state.openWaypointContentIndex, Num(-1))]
      s2 == UpdateButtonDisabledStates(s1)
      s3 == NavigationBarSetCurrentState(s2, state.navigationBar)
  IN IF Threw(s3) THEN s3
     ELSE IF state.map.kind = "null" THEN Throw(s3)
     ELSE OpenWaypointContentByIndex(MapSetCurrentState(s3, state.map),
                                     state.openWaypointContentIndex, TRUE)

\* NavigationBar.getCurrentState()
NavigationBarGetCurrentState(s) ==
  [kind |-> "object",
   minimapActive |-> BooleanParam(IF userCanUseMiniMap THEN s.minimapActive ELSE FALSE)]

\* Map.getCurrentState(): the coordinates are turned into strings.
MapGetCurrentState(s) ==
  [kind |-> "object",
   zoomLevel |-> Num(s.view.zoomLevel),
   coordinates |-> [latitude |-> NumericString(s.view.latitude),
                    longitude |-> NumericString(s.view.longitude)]]

\* Main.getCurrentState()
MainGetCurrentState(s) ==
  [openWaypointContentIndex |-> s.openWaypointContentIndex,
   navigationBar |-> NavigationBarGetCurrentState(s),
   map |-> MapGetCurrentState(s)]

\* GeoMap.reset()
GeoMapReset(s) ==
  LET s1 == [s EXCEPT !.markerIsOpen = [w \in Waypoints |-> FALSE]]
  IN IF waypointCount = 0 THEN s1
     ELSE GeoMapCenterOnWaypoint(s1, 0, Undefined, Num(paramsZoomLevel))

\* A faulty reset of the map: the content overlay is not hidden.
MapResetKeepingOverlay(s) == GeoMapReset(s)

\* Map.reset(): ContentOverlay.hide(), then GeoMap.reset()
MapReset(s) == GeoMapReset([s EXCEPT !.overlay.visible = FALSE])

\* A faulty reset of the navigation bar: the text mode is switched off.
NavigationBarResetNumeric(s) ==
  ToggleTextMode(
    NavigationBarUpdate(s, "undefined", "undefined", [isString |-> TRUE, value |-> ""]),
    FALSE)

\* NavigationBar.reset()
NavigationBarReset(s) ==
  ToggleTextMode(
    NavigationBarUpdate(s, "undefined", "undefined", [isString |-> TRUE, value |-> ""]),
    TRUE)

\* A faulty reset: the buttons are not updated.
MainResetWithoutUpdate(s) ==
  NavigationBarReset(MapReset([s EXCEPT !.openWaypointContentIndex = Num(-1)]))

\* Main.reset()
MainReset(s) ==
  LET s1 == [s EXCEPT !.openWaypointContentIndex = Num(-1)]
  IN NavigationBarReset(MapReset(UpdateButtonDisabledStates(s1)))

----------------------------------------------------------------------------
(* Content bundles *)

\* An entry of a tracking map; NoRecord stands for a key that is not there.
\* isTask is "false" for passive content and "undefined" in a task's record.
NoRecord ==
  [present |-> FALSE, isTask |-> "undefined", completed |-> FALSE, success |-> FALSE]
PassiveRecord ==
  [present |-> TRUE, isTask |-> "false", completed |-> TRUE, success |-> TRUE]

\* The tracking map the ContentBundle constructor leaves (addContent for
\* each content): a record for every passive content, none for the others.
ConstructedTrackingMap(i) ==
  [index \in ContentIndexes(i) |->
     IF ContentKind(i, index) = "passive" THEN PassiveRecord ELSE NoRecord]

\* The xAPI events a task instance can send: the verb, event.getMaxScore()
\* and the statement's result with its completion and success ("true",
\* "false" or "undefined"), score and maxScore.
XAPIEvents ==
  [verb : {"completed", "answered", "progressed"},
   eventMaxScore : {Undefined, Num(2)},
   completion : {"true", "false", "undefined"},
   success : {"true", "false", "undefined"},
   score : {Undefined, Num(1), Num(2)},
   maxScore : {Undefined, Num(0), Num(2)}]

\* A faulty listener: the verb of the event is not looked at.
XAPIEventIsTrackedAnyVerb(event) == TypeofNumber(event.eventMaxScore)

\* Whether the xAPI listener of addContent goes on to write a record.
XAPIEventIsTracked(event) ==
  /\ TypeofNumber(event.eventMaxScore)
  /\ event.verb \in {"completed", "answered"}

\* The record the xAPI listener writes:
\*   completed: result.completion ?? true
\*   success: (result.success ?? result.maxScore)
\*              ? ((result.score ?? 0) >= result.maxScore) : false
XAPIRecord(event) ==
  [present |-> TRUE,
   isTask |-> "undefined",
   completed |-> IF event.completion = "undefined" THEN TRUE
                 ELSE event.completion = "true",
   success |->
     IF (IF event.success = "undefined" THEN Truthy(event.maxScore)
         ELSE event.success = "true")
     THEN JsGreaterEqValue(Coalesce(event.score, Num(0)), event.maxScore)
     ELSE FALSE]

\* The xAPI listener addContent registers for the task at index: the
\* tracking map it leaves and the number of onTaskCompleted calls it makes.
XAPIListener(map, index, event) ==
  IF XAPIEventIsTracked(event)
  THEN [trackingMap |-> [map EXCEPT ![index] = XAPIRecord(event)], notifications |-> 1]
  ELSE [trackingMap |-> map, notifications |-> 0]

\* Object.keys(trackingMap) of a bundle
TrackingKeys(map) == {index \in DOMAIN map : map[index].present}

\* A faulty isCompleted(): the records are not counted against the instances.
IsCompletedIgnoringMissing(map, i) ==
  \A index \in TrackingKeys(map) : map[index].completed

\* ContentBundle.isCompleted() of waypoint i with the tracking map given
IsCompleted(map, i) ==
  /\ Cardinality(Instances(i)) = Cardinality(TrackingKeys(map))
  /\ \A index \in TrackingKeys(map) : map[index].completed

\* A faulty reset(): no record is deleted.
ContentBundleResetNothing(map) == map

\* A faulty reset(): every record is deleted.
ContentBundleResetAll(map) == [index \in DOMAIN map |-> NoRecord]

\* ContentBundle.reset(): every record whose isTask is not false is deleted
\* (what resetTask() does inside an instance is not part of the model).
ContentBundleReset(map) ==
  [index \in DOMAIN map |-> IF map[index].isTask # "false" THEN NoRecord ELSE map[index]]

----------------------------------------------------------------------------
(* Inputs *)

\* The index arguments and persisted indexes tried: every number from two
\* below the first position to one past the last, and values of other kinds
\* (none, the string "1", a string that is no number).
IndexValues ==
  {Num(i) : i \in -2 .. waypointCount} \cup {Undefined, NumericString(1), OtherString}

UndefinedCoordinates == [latitude |-> Undefined, longitude |-> Undefined]
UndefinedMapState ==
  [kind |-> "undefined", zoomLevel |-> Undefined, coordinates |-> UndefinedCoordinates]

\* Persisted map states: none, null, and a valid one (coordinates are
\* persisted as strings).
ValidMapState ==
  [kind |-> "object", zoomLevel |-> Num(4),
   coordinates |-> [latitude |-> NumericString(45), longitude |-> NumericString(7)]]
MapStates ==
  {UndefinedMapState, [UndefinedMapState EXCEPT !.kind = "null"], ValidMapState}

\* Persisted navigation bar states: none, null, and the two getCurrentState
\* returns.
UndefinedNavigationBarState == [kind |-> "undefined", minimapActive |-> "undefined"]
NavigationBarStates ==
  {UndefinedNavigationBarState,
   [kind |-> "null", minimapActive |-> "undefined"],
   [kind |-> "object", minimapActive |-> "true"],
   [kind |-> "object", minimapActive |-> "false"]}

\* The persisted states setCurrentState is tried with for the navigation:
\* any index, no navigation bar state.
PersistedStates ==
  [openWaypointContentIndex : IndexValues,
   navigationBar : {UndefinedNavigationBarState},
   map : MapStates]

\* Persisted map states that are damaged: no longitude, no coordinates (or
\* null ones), a latitude that is no number.
LatitudeOnlyMapState ==
  [ValidMapState EXCEPT !.coordinates.longitude = Undefined]
NoCoordinatesMapState ==
  [ValidMapState EXCEPT !.coordinates = UndefinedCoordinates]
InvalidLatitudeMapState ==
  [ValidMapState EXCEPT !.coordinates.latitude = OtherString]
SnapshotMapStates ==
  MapStates \cup {LatitudeOnlyMapState, NoCoordinatesMapState, InvalidLatitudeMapState}

\* The snapshots a restore is tried with: no index, the first waypoint's, one
\* past the last, a string; any navigation bar state; any map state.
SnapshotIndexes == {Undefined, Num(0), Num(waypointCount), OtherString}
Snapshots ==
  [openWaypointContentIndex : SnapshotIndexes,
   navigationBar : NavigationBarStates,
   map : SnapshotMapStates]

\* The previous states a story map is constructed with: those of Snapshots
\* that make setCurrentState throw end the construction and are left out.
EmptyPreviousState ==
  [openWaypointContentIndex |-> Undefined,
   navigationBar |-> UndefinedNavigationBarState,
   map |-> UndefinedMapState]
PreviousStates ==
  {p \in Snapshots : /\ p.map.kind # "null"
                      /\ p.navigationBar.kind # "null"
                      /\ p.openWaypointContentIndex \in {Undefined, Num(0)}}

\* The values setView is tried with: numbers within and beyond each range,
\* and values that are no numbers.
SetViewLatitudes ==
  {Num(n) : n \in {-91, -90, 45, 90, 999}} \cup {Undefined, OtherString, NumericString(45)}
SetViewLongitudes ==
  {Num(n) : n \in {-200, -180, 7, 180, 181}} \cup {Null, NaN, NumericString(999)}
SetViewZoomLevels ==
  {Num(n) : n \in {-1, 0, 7, 18, 50}} \cup {Undefined, OtherString}

\* The surface of the map: not rendered (zero size) or rendered.
MapSizes == {[width |-> 0, height |-> 0], [width |-> MapWidth, height |-> MapHeight]}

----------------------------------------------------------------------------
(* The state machine *)

\* The controller state the handlers work on; every handler starts with no
\* effects.
State ==
  [openWaypointContentIndex |-> openWaypointContentIndex,
   markerIsOpen |-> markerIsOpen,
   buttonDisabled |-> buttonDisabled,
   progressText |-> progressText,
   progressTextMode |-> progressTextMode,
   view |-> view,
   overlay |-> overlay,
   minimapActive |-> minimapActive,
   miniMapVisible |-> miniMapVisible,
   contentHidden |-> contentHidden,
   frames |-> frames,
   observers |-> observers,
   dispatch |-> NoDispatch,
   effects |-> <<>>]

\* The variables take the values a handler returned, its animation frame
\* callbacks still pending.
CommitPending(s) ==
  \E r \in {s} :
    /\ openWaypointContentIndex' = r.openWaypointContentIndex
    /\ markerIsOpen' = r.markerIsOpen
    /\ buttonDisabled' = r.buttonDisabled
    /\ progressText' = r.progressText
    /\ progressTextMode' = r.progressTextMode
    /\ view' = r.view
    /\ overlay' = r.overlay
    /\ minimapActive' = r.minimapActive
    /\ miniMapVisible' = r.miniMapVisible
    /\ contentHidden' = r.contentHidden
    /\ frames' = r.frames
    /\ observers' = r.observers
    /\ dispatch' = r.dispatch
    /\ effects' = r.effects

\* The variables take the values a handler returned and the animation frames
\* it asked for have passed before the next event.
Commit(s) == CommitPending(Settle(s))

\* The constructors of Button, NavigationBar (buildProgressIndicator turns
\* the text mode on, the mini-map button is not active), Waypoint,
\* ContentOverlay, GeoMap (the view is set from the first waypoint's
\* coordinates, null when there is none) and Map (setMapStyle hides the
\* mini-map), before Main's constructor calls updateButtonDisabledStates().
ConstructedFrom(previousState) ==
  LET previousCoordinates == previousState.map.coordinates
      \* previousState?.coordinates ?? coordinatesFirstWaypoint
      coordinates ==
        IF previousCoordinates # UndefinedCoordinates THEN previousCoordinates
        ELSE IF waypointCount > 0
             THEN [latitude |-> Num(ParamsLatitude(0)), longitude |-> Num(ParamsLongitude(0))]
             ELSE [latitude |-> Null, longitude |-> Null]
      \* the GeoMap constructor sanitizes params.coordinates
      paramsCoordinates ==
        [latitude |-> Num(SanitizeNumber(coordinates.latitude, DEFAULT_LATITUDE,
                                         Num(LATITUDE_MIN), Num(LATITUDE_MAX))),
         longitude |-> Num(SanitizeNumber(coordinates.longitude, DEFAULT_LONGITUDE,
                                          Num(LONGITUDE_MIN), Num(LONGITUDE_MAX)))]
  IN [openWaypointContentIndex |-> Num(-1),
      markerIsOpen |-> [w \in Waypoints |-> FALSE],
      buttonDisabled |-> [left |-> TRUE, right |-> TRUE],
      progressText |-> "",
      progressTextMode |-> TRUE,
      view |-> SetView([view |-> <<>>], paramsCoordinates,
                       Num(ConstructorZoomLevel(previousState.map.zoomLevel))).view,
      overlay |-> [visible |-> FALSE, content |-> -1],
      minimapActive |-> FALSE,
      miniMapVisible |-> FALSE,
      contentHidden |-> [w \in Waypoints |-> FALSE],
      frames |-> <<>>,
      observers |-> ConstructedObservers,
      dispatch |-> NoDispatch,
      effects |-> <<>>]

\* A faulty construction: the first waypoint is opened whatever the previous
\* state says.
ConstructStoryMapOpeningFirst(previousState) ==
  MainSetCurrentState(UpdateButtonDisabledStates(ConstructedFrom(previousState)),
                      [previousState EXCEPT !.openWaypointContentIndex = Num(0)])

\* The constructor of StoryMap: the constructor of Main, which ends with
\* updateButtonDisabledStates(), then setCurrentState(previousState).
ConstructStoryMap(previousState) ==
  MainSetCurrentState(UpdateButtonDisabledStates(ConstructedFrom(previousState)),
                      previousState)

\* Construction of the story map with one of the given previous states, but
\* for the waypoints GeoMap.buildMap registers and the button.
ConstructionAround(previousStates) ==
  /\ waypointCount \in 0 .. MaxWaypoints
  /\ mapSize \in MapSizes
  /\ userCanUseMiniMap \in BOOLEAN
  /\ trackingMap = [w \in Waypoints |-> ConstructedTrackingMap(w)]
  /\ lastCall = "constructor"
  /\ \E previousState \in previousStates :
       /\ paramsZoomLevel = ConstructorZoomLevel(previousState.map.zoomLevel)
       /\ LET s == Settle(ConstructStoryMap(previousState))
          IN /\ openWaypointContentIndex = s.openWaypointContentIndex
             /\ markerIsOpen = s.markerIsOpen
             /\ buttonDisabled = s.buttonDisabled
             /\ progressText = s.progressText
             /\ progressTextMode = s.progressTextMode
             /\ view = s.view
             /\ overlay = s.overlay
             /\ minimapActive = s.minimapActive
             /\ miniMapVisible = s.miniMapVisible
             /\ contentHidden = s.contentHidden
             /\ frames = s.frames
             /\ observers = s.observers
             /\ dispatch = s.dispatch
             /\ effects = s.effects

\* Construction of the story map with one of the given previous states.
ConstructionWith(previousStates) ==
  /\ ConstructionAround(previousStates)
  /\ waypoints = RegisteredWaypoints(waypointCount)
  /\ button = ButtonConstructor("toggle", FALSE, FALSE)

\* Construction without a previous state.
Init == ConstructionWith({EmptyPreviousState})

\* Map.openWaypointContentByIndex(index, options) is called.
OpenByIndex ==
  \E index \in IndexValues, panToFalse \in BOOLEAN :
    /\ Commit(OpenWaypointContentByIndex(State, index, panToFalse))
    /\ lastCall' = "openWaypointContentByIndex"
    /\ UNCHANGED <<button, waypointCount, waypoints, userCanUseMiniMap, paramsZoomLevel, mapSize, trackingMap>>

\* A marker is activated (click, Enter or space): GeoMap's onMarkerClick.
MarkerClick ==
  \E waypoint \in Waypoints :
    /\ Commit(OpenWaypointContent(State, waypoint, FALSE))
    /\ lastCall' = "markerClick"
    /\ UNCHANGED <<button, waypointCount, waypoints, userCanUseMiniMap, paramsZoomLevel, mapSize, trackingMap>>

\* A marker gets the keyboard focus: GeoMap's onMarkerFocus.
MarkerFocus ==
  \E waypoint \in Waypoints :
    /\ Commit(OnMarkerFocus(State, waypoint))
    /\ lastCall' = "markerFocus"
    /\ UNCHANGED <<button, waypointCount, waypoints, userCanUseMiniMap, paramsZoomLevel, mapSize, trackingMap>>

\* Main.goBackward()
Backward ==
  /\ Commit(GoBackward(State))
  /\ lastCall' = "goBackward"
  /\ UNCHANGED <<button, waypointCount, waypoints, userCanUseMiniMap, paramsZoomLevel, mapSize, trackingMap>>

\* Main.goForward()
Forward ==
  /\ Commit(GoForward(State))
  /\ lastCall' = "goForward"
  /\ UNCHANGED <<button, waypointCount, waypoints, userCanUseMiniMap, paramsZoomLevel, mapSize, trackingMap>>

\* Main.reset(): the reset button or resetTask()
Reset ==
  /\ Commit(MainReset(State))
  /\ lastCall' = "reset"
  /\ UNCHANGED <<button, waypointCount, waypoints, userCanUseMiniMap, paramsZoomLevel, mapSize, trackingMap>>

\* Main.setCurrentState(state)
SetCurrentState ==
  \E state \in PersistedStates :
    /\ Commit(MainSetCurrentState(State, state))
    /\ lastCall' = "setCurrentState"
    /\ UNCHANGED <<button, waypointCount, waypoints, userCanUseMiniMap, paramsZoomLevel, mapSize, trackingMap>>

\* The surface of the map gets another size (it is attached, shown, hidden).
SurfaceResized ==
  /\ mapSize' \in MapSizes \ {mapSize}
  /\ Commit(GeoMapResize(State))
  /\ lastCall' = "resize"
  /\ UNCHANGED <<button, waypointCount, waypoints, userCanUseMiniMap, paramsZoomLevel, trackingMap>>

\* A task instance of a waypoint's bundle triggers an xAPI event: the
\* listener addContent registered for it.
XAPIEvent ==
  \E waypoint \in Waypoints :
    \E index \in ContentIndexes(waypoint), event \in XAPIEvents :
      /\ ContentKind(waypoint, index) = "task"
      /\ LET heard == XAPIListener(trackingMap[waypoint], index, event)
         IN /\ trackingMap' = [trackingMap EXCEPT ![waypoint] = heard.trackingMap]
            /\ effects' = [k \in 1 .. heard.notifications |->
                             [ReadEffect("", openWaypointContentIndex)
                                EXCEPT !.type = "taskCompleted", !.waypoint = waypoint]]
      /\ lastCall' = "xAPI"
      /\ UNCHANGED <<button, waypointCount, waypoints, openWaypointContentIndex, markerIsOpen,
                     buttonDisabled, progressText, progressTextMode, view, mapSize,
                     overlay, userCanUseMiniMap, minimapActive, miniMapVisible, paramsZoomLevel,
                   contentHidden, frames, observers, dispatch>>

\* ContentBundle.reset() of a waypoint's bundle.
BundleReset ==
  \E waypoint \in Waypoints :
    /\ trackingMap' = [trackingMap EXCEPT ![waypoint] = ContentBundleReset(@)]
    /\ effects' = <<>>
    /\ lastCall' = "bundleReset"
    /\ UNCHANGED <<button, waypointCount, waypoints, openWaypointContentIndex, markerIsOpen,
                   buttonDisabled, progressText, progressTextMode, view, mapSize,
                   overlay, userCanUseMiniMap, minimapActive, miniMapVisible, paramsZoomLevel,
                   contentHidden, frames, observers, dispatch>>

\* The mini-map button is clicked.
MiniMapClick ==
  /\ userCanUseMiniMap
  /\ Commit(MiniMapButtonClick(State))
  /\ lastCall' = "toggleMiniMap"
  /\ UNCHANGED <<button, waypointCount, waypoints, userCanUseMiniMap, paramsZoomLevel, mapSize, trackingMap>>

\* StoryMap.setCurrentState(state) with any snapshot.
Restore ==
  \E state \in Snapshots :
    /\ Commit(MainSetCurrentState(State, state))
    /\ lastCall' = "setCurrentState"
    /\ UNCHANGED <<button, waypointCount, waypoints, userCanUseMiniMap, paramsZoomLevel, mapSize, trackingMap>>

\* GeoMap.setView(coordinates, zoomLevel) with any of the values tried.
SetViewCall ==
  \E latitude \in SetViewLatitudes, longitude \in SetViewLongitudes,
     zoomLevel \in SetViewZoomLevels :
    /\ Commit(SetView(State, [latitude |-> latitude, longitude |-> longitude], zoomLevel))
    /\ lastCall' = "setView"
    /\ UNCHANGED <<button, waypointCount, waypoints, userCanUseMiniMap, paramsZoomLevel, mapSize, trackingMap>>

\* A marker is activated and the next event arrives before the animation
\* frame.
OpenRequest ==
  \E waypoint \in Waypoints :
    /\ Len(frames) < MaxPending
    /\ CommitPending(OpenWaypointContent(State, waypoint, FALSE))
    /\ lastCall' = "markerClick"
    /\ UNCHANGED <<button, waypointCount, waypoints, userCanUseMiniMap, paramsZoomLevel, mapSize, trackingMap>>

\* The story map's 'resize' event: Main.resize(), Map.resize(),
\* GeoMap.resize().
ResizeSignal ==
  /\ Len(frames) < MaxPending
  /\ CommitPending(TriggerResize(State))
  /\ lastCall' = "resize"
  /\ UNCHANGED <<button, waypointCount, waypoints, userCanUseMiniMap, paramsZoomLevel, mapSize, trackingMap>>

\* The browser runs the pending animation frame callbacks.
AnimationFrame ==
  /\ frames # <<>>
  /\ CommitPending(AnimationFrameRun(State))
  /\ lastCall' = "animationFrame"
  /\ UNCHANGED <<button, waypointCount, waypoints, userCanUseMiniMap, paramsZoomLevel, mapSize, trackingMap>>

\* Construction, with the map attached and rendered and a mini-map button.
AttachedInit ==
  Init /\ mapSize.width # 0 /\ mapSize.height # 0 /\ userCanUseMiniMap

\* GeoMap.buildMap before its loop over params.waypoints, on a rendered map;
\* the variables of the parts that are built after the loop have the values
\* they are built with.
BuildMapInit ==
  /\ ConstructionAround({EmptyPreviousState})
  /\ waypoints = <<>>
  /\ button = ButtonConstructor("toggle", FALSE, FALSE)
  /\ mapSize.width # 0 /\ mapSize.height # 0 /\ userCanUseMiniMap

\* GeoMap.buildMap, one turn of its loop over params.waypoints: the next
\* configured waypoint, whatever its coordinates, is given its index and
\* added.
BuildMapAddWaypoint ==
  /\ Len(waypoints) < waypointCount
  /\ \E latitude \in ConfiguredLatitudes, longitude \in ConfiguredLongitudes :
       waypoints' = AddWaypoint(waypoints, [index |-> Len(waypoints),
                                            latitude |-> latitude,
                                            longitude |-> longitude])
  /\ lastCall' = "addWaypoint"
  /\ UNCHANGED <<button, waypointCount, openWaypointContentIndex, markerIsOpen, buttonDisabled,
                 progressText, progressTextMode, view, mapSize, overlay, trackingMap,
                 userCanUseMiniMap, minimapActive, miniMapVisible, paramsZoomLevel,
                 contentHidden, frames, observers, dispatch, effects>>

\* Registration of the configured waypoints.
BuildMapSpec == BuildMapInit /\ [][BuildMapAddWaypoint]_vars

\* A story map with a button of any type that is built active or not and
\* disabled or not.
ButtonInit ==
  /\ ConstructionAround({EmptyPreviousState})
  /\ waypoints = RegisteredWaypoints(waypointCount)
  /\ \E type \in {"toggle", "pulse"}, active \in BOOLEAN, disabled \in BOOLEAN :
       button = ButtonConstructor(type, active, disabled)

\* The variables but button, which the operations of the button leave alone.
ButtonFrame ==
  UNCHANGED <<waypointCount, waypoints, openWaypointContentIndex, markerIsOpen,
              buttonDisabled, progressText, progressTextMode, view, mapSize, overlay,
              trackingMap, userCanUseMiniMap, minimapActive, miniMapVisible,
              paramsZoomLevel, contentHidden, frames, observers, dispatch, effects>>

\* NavigationBar.enableButton(id) and NavigationBar.disableButton(id)
ButtonEnable ==
  /\ button' = Enable([button EXCEPT !.onClickCalls = 0])
  /\ lastCall' = "enable"
  /\ ButtonFrame

ButtonDisable ==
  /\ button' = Disable([button EXCEPT !.onClickCalls = 0])
  /\ lastCall' = "disable"
  /\ ButtonFrame

\* The button is clicked.
ButtonClick ==
  /\ button' = ButtonClickListener([button EXCEPT !.onClickCalls = 0])
  /\ lastCall' = "click"
  /\ ButtonFrame

\* Button.forceState(active, skipCallback)
ButtonForce ==
  /\ \E active \in BOOLEAN, skipCallback \in BOOLEAN :
       button' = ButtonForceState([button EXCEPT !.onClickCalls = 0], active, skipCallback)
  /\ lastCall' = "forceState"
  /\ ButtonFrame

\* A button on its own.
ButtonNext == ButtonEnable \/ ButtonDisable \/ ButtonClick \/ ButtonForce

ButtonSpec == ButtonInit /\ [][ButtonNext]_vars

\* What an IntersectionObserver can hand to its callback: isIntersecting of
\* each entry, the oldest first.
ReportEntries == {<<TRUE>>, <<FALSE>>, <<FALSE, TRUE>>, <<TRUE, FALSE>>}

\* callOnceVisible: the idle callback of an instance's wrapper runs.
IdleCallbackRun ==
  \E id \in EmbeddedInstances :
    /\ observers[id].phase = "idle"
    /\ Commit(IdleCallback(State, id))
    /\ lastCall' = "idleCallback"
    /\ UNCHANGED <<button, waypointCount, waypoints, userCanUseMiniMap, paramsZoomLevel, mapSize, trackingMap>>

\* The IntersectionObserver of an instance's wrapper, while it observes the
\* wrapper, reports to its callback.
IntersectionReport ==
  \E id \in EmbeddedInstances, entries \in ReportEntries :
    /\ observers[id].phase = "observing"
    /\ Commit(ObserverCallback(State, id, entries))
    /\ lastCall' = "intersectionReport"
    /\ UNCHANGED <<button, waypointCount, waypoints, userCanUseMiniMap, paramsZoomLevel, mapSize, trackingMap>>

\* An embedded instance triggers 'resize'.
InstanceResize ==
  \E id \in EmbeddedInstances :
    /\ Commit(TriggerInstanceResize(State, id, MaxDispatchDepth))
    /\ lastCall' = "instanceResize"
    /\ UNCHANGED <<button, waypointCount, waypoints, userCanUseMiniMap, paramsZoomLevel, mapSize, trackingMap>>

\* 'resize' is triggered on the story map.
MainResize ==
  /\ Commit(TriggerResize(State))
  /\ lastCall' = "resize"
  /\ UNCHANGED <<button, waypointCount, waypoints, userCanUseMiniMap, paramsZoomLevel, mapSize, trackingMap>>

\* Embedded instances: their attachment once visible and the 'resize'
\* events between them and the story map, with waypoints being opened.
EmbedNext ==
  \/ MarkerClick
  \/ IdleCallbackRun
  \/ IntersectionReport
  \/ InstanceResize
  \/ MainResize

\* Construction of a story map of at most MaxEmbedWaypoints waypoints, with
\* the map attached and rendered.
EmbedInit == AttachedInit /\ waypointCount <= MaxEmbedWaypoints

EmbedSpec == EmbedInit /\ [][EmbedNext]_vars

\* Navigation on a rendered map.
Next ==
  \/ OpenByIndex
  \/ MarkerClick
  \/ MarkerFocus
  \/ Backward
  \/ Forward
  \/ Reset
  \/ SetCurrentState

Spec == AttachedInit /\ [][Next]_vars

\* Navigation together with the events of the embedded tasks.
TrackingNext == XAPIEvent \/ MarkerClick \/ Backward \/ Forward \/ Reset

TrackingSpec == AttachedInit /\ [][TrackingNext]_vars

\* Opening waypoints and resetting on a surface that changes between not
\* rendered and rendered.
SurfaceNext == MarkerClick \/ Reset \/ SurfaceResized

SurfaceSpec == Init /\ [][SurfaceNext]_vars

\* Events that arrive between the animation frames.
FrameNext == OpenRequest \/ ResizeSignal \/ AnimationFrame

FrameSpec == AttachedInit /\ [][FrameNext]_vars

\* The content bundles on their own: the events of their tasks and reset().
BundleNext == XAPIEvent \/ BundleReset

BundleSpec == AttachedInit /\ [][BundleNext]_vars

\* Construction with a previous state, with the map attached and rendered.
RestoreInit ==
  ConstructionWith(PreviousStates) /\ mapSize.width # 0 /\ mapSize.height # 0

\* Restoring snapshots, with the mini-map button and the markers in use.
RestoreNext == Restore \/ MiniMapClick \/ MarkerClick \/ Reset

RestoreSpec == RestoreInit /\ [][RestoreNext]_vars

\* The viewport: setView, centring on a marker, reset, on a map that is
\* rendered or not.
ViewNext == SetViewCall \/ MarkerFocus \/ Reset \/ SurfaceResized

ViewSpec == Init /\ [][ViewNext]_vars

----------------------------------------------------------------------------
(* Properties *)

\* The positions in a handler's effects of the entries of one type.
EffectsOfType(effectSeq, type) ==
  {k \in DOMAIN effectSeq : effectSeq[k].type = type}

\* C1: mutual exclusion. After any sequence of open requests (by index, by
\* marker activation, goBackward, goForward), reset and setCurrentState calls,
\* at most one waypoint has isOpen = true.
C1_MutualExclusion ==
  Cardinality({w \in Waypoints : markerIsOpen[w]}) <= 1

\* C1 witness: goForward has opened the third waypoint, which is the only
\* open one although its predecessor was open before.
C1_Witness ==
  /\ lastCall = "goForward"
  /\ waypointCount >= 3
  /\ Len(effects) = 2
  /\ markerIsOpen[2]
  /\ ~markerIsOpen[1]

\* C2: in every reachable state, also after setCurrentState with an arbitrary
\* persisted snapshot, openWaypointContentIndex is -1 or the index of a
\* waypoint.
C2_OpenIndexValid ==
  \/ openWaypointContentIndex = Num(-1)
  \/ \E w \in Waypoints : openWaypointContentIndex = Num(w)

\* C3: disabled-state rule. In the initial state and after every transition
\* the backward control is enabled iff openIndex > 0 and the forward control
\* is enabled iff openIndex < lastIndex (the comparisons being JavaScript's).
C3_DisabledStateRule ==
  /\ (~buttonDisabled.left) <=> JsGreater(openWaypointContentIndex, 0)
  /\ (~buttonDisabled.right) <=> JsLess(openWaypointContentIndex, lastMarkerIndex)

\* C3 witness: goForward has reached the last of four waypoints: backward is
\* enabled and forward is disabled.
C3_Witness ==
  /\ lastCall = "goForward"
  /\ waypointCount = 4
  /\ openWaypointContentIndex = Num(3)
  /\ ~buttonDisabled.left
  /\ buttonDisabled.right

\* C4: boundary idempotence. goBackward() when openIndex is 0 or -1 and
\* goForward() when openIndex is lastIndex change nothing: openIndex, every
\* waypoint's isOpen, the viewport, the overlay, the progress text and the
\* controls stay as they are, and nothing is announced or recentred.
C4_BoundaryIdempotence ==
  [][((lastCall' = "goBackward" /\ openWaypointContentIndex \in {Num(0), Num(-1)})
       \/ (lastCall' = "goForward" /\ openWaypointContentIndex = Num(lastMarkerIndex)))
     => /\ UNCHANGED <<openWaypointContentIndex, markerIsOpen, view, buttonDisabled,
                       overlay, progressText, progressTextMode>>
        /\ effects' = <<>>]_vars

\* C4 witness: goForward was called at the last of at least two waypoints
\* and did nothing.
C4_Witness ==
  /\ lastCall = "goForward"
  /\ waypointCount >= 2
  /\ openWaypointContentIndex = Num(lastMarkerIndex)
  /\ markerIsOpen[lastMarkerIndex]
  /\ effects = <<>>

\* C5: openWaypointContentByIndex is a no-op when the index is outside
\* [0, lastIndex] or not a number, or when the target waypoint is already
\* open: whatever the state and the options, the call leaves every field as
\* it is and announces and recentres nothing.
C5_OpenByIndexNoOp ==
  \A index \in IndexValues, panToFalse \in BOOLEAN :
    LET valid == index.kind = "number" /\ index.num \in Waypoints
    IN (~valid \/ markerIsOpen[index.num])
         => OpenWaypointContentByIndex(State, index, panToFalse) = State

\* C5 witness: openWaypointContentByIndex was called while a waypoint was
\* open, and did nothing.
C5_Witness ==
  /\ lastCall = "openWaypointContentByIndex"
  /\ effects = <<>>
  /\ \E w \in Waypoints : markerIsOpen[w] /\ openWaypointContentIndex = Num(w)

\* C6: for a valid index whose waypoint is not open, openWaypointContentByIndex
\* closes any open waypoint, opens the target, sets openIndex to the target's
\* index and makes exactly one announcement, which carries the target's title
\* (the progress text shows it too), whether or not panTo is false.
C6_SuccessfulOpen ==
  \A w \in Waypoints, panToFalse \in BOOLEAN :
    ~markerIsOpen[w] =>
      LET r == OpenWaypointContentByIndex(State, Num(w), panToFalse)
          reads == EffectsOfType(r.effects, "read")
      IN /\ r.markerIsOpen = [v \in Waypoints |-> v = w]
         /\ r.openWaypointContentIndex = Num(w)
         /\ Cardinality(reads) = 1
         /\ \A k \in reads :
              r.effects[k].title =
                (IF ParamsTitle(w) = "" THEN UnnamedWaypoint ELSE ParamsTitle(w))
         /\ r.progressText =
              (IF ParamsTitle(w) = "" THEN UnnamedWaypoint ELSE ParamsTitle(w))

\* C6 witness: openWaypointContentByIndex with panTo false has opened the
\* second waypoint: the one announcement, its title, and nothing else.
C6_Witness ==
  /\ lastCall = "openWaypointContentByIndex"
  /\ waypointCount >= 2
  /\ markerIsOpen[1]
  /\ openWaypointContentIndex = Num(1)
  /\ Len(effects) = 1
  /\ effects[1].type = "read"
  /\ effects[1].title = "Harbour"

\* C7: a successful open requests exactly one recentring on the target, after
\* openIndex has been updated and the announcement made, unless panTo is
\* false; with panTo false nothing is recentred. setCurrentState recentres
\* nothing, so after restoring a snapshot that holds coordinates the viewport
\* is the one set from the snapshot's coordinates and zoom.
C7_RecentringUnlessPanToFalse ==
  /\ \A w \in Waypoints, panToFalse \in BOOLEAN :
       ~markerIsOpen[w] =>
         LET r == OpenWaypointContentByIndex(State, Num(w), panToFalse)
             centers == EffectsOfType(r.effects, "center")
         IN IF panToFalse THEN centers = {}
            ELSE /\ Cardinality(centers) = 1
                 /\ \A k \in centers :
                      /\ r.effects[k].waypoint = w
                      /\ r.effects[k].openIndex = Num(w)
                      /\ \E j \in EffectsOfType(r.effects, "read") : j < k
  /\ \A state \in PersistedStates :
       LET r == MainSetCurrentState(State, state)
       IN /\ EffectsOfType(r.effects, "center") = {}
          /\ state.map.kind = "object" =>
               r.view = [latitude |-> state.map.coordinates.latitude.num,
                         longitude |-> state.map.coordinates.longitude.num,
                         zoomLevel |-> state.map.zoomLevel.num]

\* C7 witness: setCurrentState has restored a snapshot with an open waypoint
\* and a viewport: the waypoint is open, announced and not recentred, and the
\* viewport is the snapshot's.
C7_Witness ==
  /\ lastCall = "setCurrentState"
  /\ \E w \in Waypoints : markerIsOpen[w] /\ openWaypointContentIndex = Num(w)
  /\ Len(effects) = 1
  /\ effects[1].type = "read"
  /\ view = [latitude |-> 45, longitude |-> 7, zoomLevel |-> 4]

\* C8: navigation steps. With openIndex = i, goForward() for i < lastIndex
\* results in openIndex = i + 1 with waypoint i + 1 the only open waypoint,
\* and goBackward() for i > 0 results in openIndex = i - 1 (i being -1 or the
\* index of a waypoint).
C8_NavigationSteps ==
  [][/\ (/\ lastCall' = "goForward"
         /\ openWaypointContentIndex.kind = "number"
         /\ openWaypointContentIndex.num >= -1
         /\ openWaypointContentIndex.num < lastMarkerIndex)
        => /\ openWaypointContentIndex' = Num(openWaypointContentIndex.num + 1)
           /\ markerIsOpen' =
                [w \in Waypoints |-> w = openWaypointContentIndex.num + 1]
     /\ (/\ lastCall' = "goBackward"
         /\ openWaypointContentIndex.kind = "number"
         /\ openWaypointContentIndex.num > 0
         /\ openWaypointContentIndex.num <= lastMarkerIndex)
        => openWaypointContentIndex' = Num(openWaypointContentIndex.num - 1)]_vars

\* C9: after reset() in a story map with 4 waypoints, openIndex = -1, the
\* backward control is disabled and the forward control is enabled.
C9_ResetControls ==
  (lastCall = "reset" /\ waypointCount = 4)
    => /\ openWaypointContentIndex = Num(-1)
       /\ buttonDisabled.left
       /\ ~buttonDisabled.right

\* C9 as the specification words it: after reset() in a story map with 4
\* waypoints, openIndex = -1 and both controls are disabled.
C9_ResetBothDisabled ==
  (lastCall = "reset" /\ waypointCount = 4)
    => /\ openWaypointContentIndex = Num(-1)
       /\ buttonDisabled.left
       /\ buttonDisabled.right

\* C9 witness: reset() was called in a story map with 4 waypoints after the
\* last waypoint's content had been shown.
C9_Witness ==
  /\ lastCall = "reset"
  /\ waypointCount = 4
  /\ overlay.content = 3
  /\ ~overlay.visible

\* C10: reset semantics. After the controller's reset(), in every waypoint's
\* content bundle no tracking record of a task remains, the record of every
\* passive content is still there, and openIndex = -1.
C10_ResetSemantics ==
  lastCall = "reset"
    => /\ openWaypointContentIndex = Num(-1)
       /\ \A w \in Waypoints : \A index \in ContentIndexes(w) :
            IF ContentKind(w, index) = "passive"
            THEN trackingMap[w][index] = PassiveRecord
            ELSE ~trackingMap[w][index].present

\* C11: after reset() no waypoint is open, the content overlay is hidden, and
\* recentring the map on the first waypoint (index 0) has been requested,
\* once, whenever there is a first waypoint.
C11_ResetClosesAndRecentres ==
  lastCall = "reset"
    => /\ \A w \in Waypoints : ~markerIsOpen[w]
       /\ ~overlay.visible
       /\ waypointCount > 0
            => /\ Cardinality(EffectsOfType(effects, "center")) = 1
               /\ \A k \in EffectsOfType(effects, "center") : effects[k].waypoint = 0

\* C11 witness: reset() was called while the content of another waypoint than
\* the first had been shown, and the map was recentred on the first.
C11_Witness ==
  /\ lastCall = "reset"
  /\ overlay.content = 2
  /\ ~overlay.visible
  /\ Cardinality(EffectsOfType(effects, "center")) = 1
  /\ \A w \in Waypoints : ~markerIsOpen[w]

\* C12: reset() leaves the progress indicator in text mode, showing the empty
\* text: the numeric parts are hidden, as they are after construction.
C12_ResetTextModeOn ==
  lastCall = "reset" => progressTextMode /\ progressText = ""

\* C12 as the specification words it: after reset() the text mode is off.
C12_ResetTextModeOff ==
  lastCall = "reset" => ~progressTextMode

\* C12 witness: reset() was called after a waypoint's title had been shown,
\* and the indicator is in text mode with the empty text.
C12_Witness ==
  /\ lastCall = "reset"
  /\ overlay.content = 1
  /\ progressTextMode
  /\ progressText = ""

\* C13: round trip. In every reachable state, setCurrentState(getCurrentState())
\* leaves openIndex, the set of open waypoints, the centre of the viewport and
\* the zoom level as they were.
C13_RoundTrip ==
  LET restored == MainSetCurrentState(State, MainGetCurrentState(State))
  IN /\ restored.openWaypointContentIndex = openWaypointContentIndex
     /\ restored.markerIsOpen = markerIsOpen
     /\ restored.view = view

\* C15: the fields of a snapshot are restored independently. A snapshot whose
\* map coordinates are missing or invalid still reopens the waypoint named by
\* a valid index, and a snapshot whose index is invalid still restores a valid
\* viewport, the index ending in its default state: openIndex = -1 and no
\* waypoint open.
C15_IndependentFields ==
  \A snapshot \in Snapshots :
    (snapshot.navigationBar.kind # "null" /\ snapshot.map.kind # "null")
      => LET restored == MainSetCurrentState(State, snapshot)
             index == snapshot.openWaypointContentIndex
             indexValid == index.kind = "number" /\ index.num \in Waypoints
             indexInvalid == index.kind # "undefined" /\ ~indexValid
         IN /\ (indexValid /\ snapshot.map # ValidMapState)
                 => /\ restored.markerIsOpen[index.num]
                    /\ restored.openWaypointContentIndex = index
            /\ (indexInvalid /\ snapshot.map = ValidMapState)
                 => /\ restored.view = [latitude |-> 45, longitude |-> 7, zoomLevel |-> 4]
                    /\ restored.openWaypointContentIndex = Num(-1)
                    /\ \A w \in Waypoints : ~restored.markerIsOpen[w]

\* C18: the initial state without a snapshot. After construction with an
\* empty previous state, openIndex = -1, no waypoint is open, the mini-map is
\* hidden, and the viewport is centred on the first waypoint's coordinates
\* (when there is a first waypoint) at the configured default zoom level.
C18_InitialState ==
  lastCall = "constructor"
    => /\ openWaypointContentIndex = Num(-1)
       /\ \A w \in Waypoints : ~markerIsOpen[w]
       /\ ~miniMapVisible
       /\ view.zoomLevel = ZoomLevelDefault
       /\ waypointCount > 0
            => /\ view.latitude = ParamsLatitude(0)
               /\ view.longitude = ParamsLongitude(0)

\* C18 witness: a story map with 4 waypoints has been constructed without a
\* previous state, and its viewport is centred on the first waypoint.
C18_Witness ==
  /\ lastCall = "constructor"
  /\ waypointCount = 4
  /\ view = [latitude |-> ParamsLatitude(0), longitude |-> ParamsLongitude(0),
              zoomLevel |-> ZoomLevelDefault]
  /\ openWaypointContentIndex = Num(-1)
  /\ ~miniMapVisible

\* C14: restoring a snapshot reproduces the mini-map toggle. With a mini-map
\* button, after setCurrentState(snapshot) from any state the mini-map is
\* visible exactly if snapshot.navigationBar.minimapActive is true, and
\* restoring the state's own snapshot does not change the visibility.
C14_MiniMapRestored ==
  userCanUseMiniMap
    => /\ \A snapshot \in Snapshots :
            (snapshot.navigationBar.kind = "object" /\ snapshot.map.kind # "null")
              => MainSetCurrentState(State, snapshot).miniMapVisible
                   = (snapshot.navigationBar.minimapActive = "true")
       /\ MainSetCurrentState(State, MainGetCurrentState(State)).miniMapVisible
            = miniMapVisible

\* C16: a snapshot whose map.coordinates lacks the latitude or the longitude
\* has its viewport ignored. After construction with such a snapshot the
\* viewport is centred on the first waypoint's coordinates, never on a mix of
\* the one persisted coordinate and a default for the other.
C16_PartialCoordinatesIgnored ==
  \A previousState \in PreviousStates :
    (/\ waypointCount > 0
     /\ \/ previousState.map.coordinates.latitude = Undefined
        \/ previousState.map.coordinates.longitude = Undefined)
      => LET constructed == ConstructStoryMap(previousState)
         IN /\ constructed.view.latitude = ParamsLatitude(0)
            /\ constructed.view.longitude = ParamsLongitude(0)

\* C17: setCurrentState(state) completes without raising an error whatever
\* fields of the state are missing, null or wrongly typed.
C17_RestoreNeverThrows ==
  lastCall = "setCurrentState" => EffectsOfType(effects, "throw") = {}

\* C19: sanitization. For all numeric inputs, setView(coordinates, zoomLevel)
\* sets a viewport whose latitude is in [-90, 90], longitude in [-180, 180]
\* and zoom level in [minZoom, maxZoom]: a value out of its range is replaced
\* by the nearest bound and a value in its range is kept.
C19_SetViewClamps ==
  \A latitude \in SetViewLatitudes, longitude \in SetViewLongitudes,
     zoomLevel \in SetViewZoomLevels :
    LET set == SetView(State, [latitude |-> latitude, longitude |-> longitude],
                       zoomLevel).view
    IN /\ latitude.kind = "number"
            => set.latitude = IF latitude.num < -90 THEN -90
                              ELSE IF latitude.num > 90 THEN 90 ELSE latitude.num
       /\ longitude.kind = "number"
            => set.longitude = IF longitude.num < -180 THEN -180
                               ELSE IF longitude.num > 180 THEN 180 ELSE longitude.num
       /\ zoomLevel.kind = "number"
            => set.zoomLevel = IF zoomLevel.num < MapMinZoom THEN MapMinZoom
                               ELSE IF zoomLevel.num > MapMaxZoom THEN MapMaxZoom
                               ELSE zoomLevel.num

\* C19 witness: setView({latitude: 999, longitude: -200}, 50) was called and
\* the viewport is at latitude 90, longitude -180 and the maximal zoom level.
C19_Witness ==
  /\ lastCall = "setView"
  /\ view = [latitude |-> 90, longitude |-> -180, zoomLevel |-> MapMaxZoom]
  /\ Num(999) \in SetViewLatitudes
  /\ Num(-200) \in SetViewLongitudes
  /\ Num(50) \in SetViewZoomLevels

\* C20: setView with a latitude, longitude or zoom level that is no number
\* yields the documented default of that field (DEFAULT_COORDINATES,
\* DEFAULT_ZOOM_LEVEL), whatever the viewport was before.
C20_InvalidYieldsDefault ==
  \A latitude \in SetViewLatitudes, longitude \in SetViewLongitudes,
     zoomLevel \in SetViewZoomLevels :
    LET set == SetView(State, [latitude |-> latitude, longitude |-> longitude],
                       zoomLevel).view
    IN /\ latitude.kind \notin {"number", "numericString"}
            => set.latitude = DEFAULT_LATITUDE
       /\ longitude.kind \notin {"number", "numericString"}
            => set.longitude = DEFAULT_LONGITUDE
       /\ zoomLevel.kind \notin {"number", "numericString"}
            => set.zoomLevel = DEFAULT_ZOOM_LEVEL

\* C20 as the specification words it: a value that is no number yields the
\* last-known value of the field (the viewport has one from construction on).
C20_InvalidYieldsLastKnown ==
  \A latitude \in SetViewLatitudes, longitude \in SetViewLongitudes,
     zoomLevel \in SetViewZoomLevels :
    LET set == SetView(State, [latitude |-> latitude, longitude |-> longitude],
                       zoomLevel).view
    IN /\ latitude.kind \notin {"number", "numericString"}
            => set.latitude = view.latitude
       /\ longitude.kind \notin {"number", "numericString"}
            => set.longitude = view.longitude
       /\ zoomLevel.kind \notin {"number", "numericString"}
            => set.zoomLevel = view.zoomLevel

\* C20 witness: setView was called with no number at all, after the viewport
\* had other values, and the viewport is at the defaults.
C20_Witness ==
  /\ lastCall = "setView"
  /\ view = [latitude |-> DEFAULT_LATITUDE, longitude |-> DEFAULT_LONGITUDE,
              zoomLevel |-> DEFAULT_ZOOM_LEVEL]

\* C21: completion aggregation. In every reachable state of a bundle,
\* isCompleted() is true exactly if every content item that was instantiated
\* has a tracking record and every record has completed = true; a task
\* reporting completion false makes it false, and a task reporting completion
\* true while all other items are completed makes it true.
C21_CompletionAggregation ==
  \A w \in Waypoints :
    LET map == trackingMap[w]
        Completed(m, index) == m[index].present /\ m[index].completed
    IN /\ IsCompleted(map, w) = (\A index \in Instances(w) : Completed(map, index))
       /\ \A index \in Instances(w), event \in XAPIEvents :
            (ContentKind(w, index) = "task" /\ XAPIEventIsTracked(event))
              => LET after == XAPIListener(map, index, event).trackingMap
                 IN /\ event.completion = "false" => ~IsCompleted(after, w)
                    /\ (/\ event.completion = "true"
                        /\ \A other \in Instances(w) \ {index} : Completed(map, other))
                         => IsCompleted(after, w)

\* C21 witness: in the bundle of three items with two tasks, a task has
\* reported and the bundle is completed.
C21_Witness ==
  /\ lastCall = "xAPI"
  /\ waypointCount > 1
  /\ ParamsContents(1) = <<"task", "passive", "task">>
  /\ IsCompleted(trackingMap[1], 1)

\* C22: the passive-content invariant. From construction on, whatever task
\* events and reset() calls happen, the tracking record of every item that is
\* no task is {completed: true, success: true}, and isCompleted() of a bundle
\* without task items, an empty bundle included, is true.
C22_PassiveContent ==
  \A w \in Waypoints :
    /\ \A index \in ContentIndexes(w) :
         ContentKind(w, index) = "passive"
           => /\ trackingMap[w][index].present
              /\ trackingMap[w][index].completed
              /\ trackingMap[w][index].success
    /\ (\A index \in ContentIndexes(w) : ContentKind(w, index) # "task")
         => IsCompleted(trackingMap[w], w)

\* C22 witness: reset() of a bundle was called in a story map that has a
\* bundle of passive content only and an empty one, both completed, while a
\* task of another bundle has a record.
C22_Witness ==
  /\ lastCall = "bundleReset"
  /\ waypointCount = 4
  /\ ParamsContents(0) = <<"passive">> /\ IsCompleted(trackingMap[0], 0)
  /\ ParamsContents(2) = <<>> /\ IsCompleted(trackingMap[2], 2)
  /\ \E index \in ContentIndexes(3) : trackingMap[3][index] \notin {NoRecord, PassiveRecord}

\* C23: on a completed or answered event of a task with a numeric max score,
\* the tracking record is set from the result: completed is result.completion,
\* or true if that is absent; success is result.success when it is present,
\* otherwise score >= maxScore when result.maxScore is present, otherwise
\* false; and exactly one task-completed notification is raised.
C23_RecordFromResult ==
  \A w \in Waypoints : \A index \in ContentIndexes(w), event \in XAPIEvents :
    (ContentKind(w, index) = "task" /\ XAPIEventIsTracked(event))
      => LET heard == XAPIListener(trackingMap[w], index, event)
             record == heard.trackingMap[index]
         IN /\ record.present
            /\ record.completed = (event.completion # "false")
            /\ record.success =
                 IF event.success # "undefined" THEN event.success = "true"
                 ELSE IF event.maxScore.kind # "undefined"
                      THEN JsGreaterEqValue(Coalesce(event.score, Num(0)), event.maxScore)
                      ELSE FALSE
            /\ heard.notifications = 1

\* C24: ContentBundle.reset() discards the tracking records of the task items
\* only and keeps every record of an item that is no task, and it is
\* idempotent: a second reset() leaves the tracking map as the first left it.
C24_BundleReset ==
  \A w \in Waypoints :
    LET once == ContentBundleReset(trackingMap[w])
    IN /\ \A index \in ContentIndexes(w) :
            IF ContentKind(w, index) = "passive"
            THEN once[index] = trackingMap[w][index] /\ once[index].present
            ELSE ~once[index].present
       /\ ContentBundleReset(once) = once

\* C24 witness: reset() has emptied the records of the tasks of one bundle
\* and kept its passive record, while a task of another bundle has a record
\* for a next reset() to discard.
C24_Witness ==
  /\ lastCall = "bundleReset"
  /\ waypointCount = 4
  /\ trackingMap[1] = ConstructedTrackingMap(1)
  /\ trackingMap[1][1] = PassiveRecord
  /\ trackingMap[3][0].present

\* C25: partial failure is isolated per content item. An item whose instance
\* could not be constructed is skipped: it never has a tracking record, the
\* other items of its bundle are tracked as they are without it (a passive
\* item has its record, a task's event writes the task's record and no
\* other), and isCompleted() depends on the constructed items only.
C25_FailureIsolated ==
  \A w \in Waypoints :
    LET map == trackingMap[w]
        constructed == {index \in ContentIndexes(w) : ContentKind(w, index) # "broken"}
    IN /\ \A index \in ContentIndexes(w) \ constructed : ~map[index].present
       /\ \A index \in constructed :
            ContentKind(w, index) = "passive" => map[index] = PassiveRecord
       /\ \A index \in constructed, event \in XAPIEvents :
            ContentKind(w, index) = "task"
              => LET after == XAPIListener(map, index, event).trackingMap
                 IN /\ \A other \in ContentIndexes(w) \ {index} : after[other] = map[other]
                    /\ XAPIEventIsTracked(event) => after[index].present
       /\ IsCompleted(map, w)
            = (\A index \in constructed : map[index].present /\ map[index].completed)

\* C25 witness: the bundle with a task, an item that failed to construct and
\* a passive item is completed after its task reported, the failed item
\* having no record.
C25_Witness ==
  /\ lastCall = "xAPI"
  /\ waypointCount = 4
  /\ ParamsContents(3) = <<"task", "broken", "passive">>
  /\ ~trackingMap[3][1].present
  /\ trackingMap[3][0].present
  /\ IsCompleted(trackingMap[3], 3)

\* C30: an event of a task whose verb is neither 'completed' nor 'answered',
\* or whose max score is not a number, leaves the tracking map of the bundle
\* unchanged and raises no task-completed notification; the records of the
\* items that are no tasks are never changed by an event.
C30_OtherEventsIgnored ==
  \A w \in Waypoints :
    /\ \A index \in ContentIndexes(w), event \in XAPIEvents :
         (/\ ContentKind(w, index) = "task"
          /\ \/ event.verb \notin {"completed", "answered"}
             \/ event.eventMaxScore.kind # "number")
           => XAPIListener(trackingMap[w], index, event)
                = [trackingMap |-> trackingMap[w], notifications |-> 0]
    /\ lastCall = "xAPI"
         => \A index \in ContentIndexes(w) :
              ContentKind(w, index) # "task"
                => trackingMap[w][index] = ConstructedTrackingMap(w)[index]

\* C30 witness: an event of a task was heard that raised no notification and
\* left the tracking maps as construction left them.
C30_Witness ==
  /\ lastCall = "xAPI"
  /\ effects = <<>>
  /\ waypointCount = 4
  /\ \A w \in Waypoints : trackingMap[w] = ConstructedTrackingMap(w)

\* C26: centring on a waypoint places its marker at the horizontal screen
\* fraction 0.5 when no waypoint content is open (keyboard focus on a marker
\* before anything was opened or after reset) and at 0.25 when content is
\* open: every centring request of the last call asks for that fraction.
C26_CentreFraction ==
  \A k \in EffectsOfType(effects, "center") :
    effects[k].xPercentage =
      IF \E w \in Waypoints : markerIsOpen[w]
      THEN MAP_CENTER_X_PERCENTAGE_CONTENT_OPEN
      ELSE MAP_CENTER_X_PERCENTAGE

\* C27: a centring request made while the surface of the map has zero width
\* or height changes nothing, and once the surface has a size the next resize
\* event, or the next request that opens a waypoint, centres the map on the
\* open waypoint: its marker is then at the target point of the surface.
C27_DeferredCentring ==
  LET rendered == mapSize.width # 0 /\ mapSize.height # 0
      AtTarget(w) ==
        LatLngToContainerPoint(
          [latitude |-> ParamsLatitude(w), longitude |-> ParamsLongitude(w)],
          [latitude |-> view.latitude, longitude |-> view.longitude])
          = [x |-> (mapSize.width * MAP_CENTER_X_PERCENTAGE_CONTENT_OPEN) \div 100,
             y |-> (mapSize.height * DEFAULT_MAP_CENTER_Y_PERCENTAGE) \div 100]
  IN /\ ~rendered => \A w \in Waypoints : OnMarkerFocus(State, w).view = view
     /\ (rendered /\ lastCall = "markerClick" /\ effects # <<>>)
          => \A w \in Waypoints : markerIsOpen[w] => AtTarget(w)
     /\ (rendered /\ lastCall = "resize")
          => \A w \in Waypoints : markerIsOpen[w] => AtTarget(w)

\* C28: the resize debounce. Each resize signal cancels the pending size
\* recomputation and requests a new one: at most one recomputation is
\* pending, and an animation frame that follows a burst of resize signals
\* runs updateSizeProperties() once.
C28_ResizeDebounce ==
  /\ Cardinality({k \in DOMAIN frames : frames[k].callback = "updateSizeProperties"}) <= 1
  /\ lastCall = "animationFrame"
       => Cardinality(EffectsOfType(effects, "updateSizeProperties")) <= 1

\* C29: open requests may arrive while the reveal callbacks of earlier opens
\* are pending. At most one waypoint is open at every step, and when no
\* reveal callback is pending the overlay is shown and holds the bundle of
\* the open waypoint, which is shown.
C29_NoConcurrentOpen ==
  /\ Cardinality({w \in Waypoints : markerIsOpen[w]}) <= 1
  /\ (\A k \in DOMAIN frames : frames[k].callback # "showContentDOM")
       => \A w \in Waypoints :
            markerIsOpen[w]
              => /\ overlay.visible
                 /\ overlay.content = w
                 /\ ~contentHidden[w]

\* C29 witness: a waypoint was opened while the reveal callback of the open
\* before it was pending; both callbacks are pending and only the waypoint
\* opened last is open.
C29_Witness ==
  /\ lastCall = "markerClick"
  /\ Len(frames) = 2
  /\ frames[1].callback = "showContentDOM"
  /\ frames[2].callback = "showContentDOM"
  /\ frames[1].waypoint # frames[2].waypoint
  /\ \A w \in Waypoints : markerIsOpen[w] = (w = frames[2].waypoint)
  /\ overlay.content = frames[2].waypoint

\* C31: a marker that receives the focus while the pointer is not in use
\* only requests centring on its waypoint: the open index, every waypoint's
\* open flag, the overlay and the disabled state of the controls stay as they
\* are and nothing is read out. Activation (click, Enter, space, or focus
\* while the pointer is in use) requests opening: the waypoint is then the
\* only open one.
C31_FocusOnlyCentres ==
  \A w \in Waypoints :
    /\ LET r == MarkerDOMFocus(State, w, FALSE)
       IN /\ r.openWaypointContentIndex = openWaypointContentIndex
          /\ r.markerIsOpen = markerIsOpen
          /\ r.overlay = overlay
          /\ r.buttonDisabled = buttonDisabled
          /\ r.frames = frames
          /\ Len(r.effects) = 1
          /\ r.effects[1].type = "center"
          /\ r.effects[1].waypoint = w
    /\ \A r \in {MarkerDOMFocus(State, w, TRUE), MarkerKeydown(State, w, "Enter"),
                  MarkerKeydown(State, w, " ")} :
         /\ r = OpenWaypointContent(State, w, FALSE)
         /\ \A v \in Waypoints : r.markerIsOpen[v] = (v = w)
         /\ r.overlay = [visible |-> TRUE, content |-> w]
    /\ MarkerKeydown(State, w, "Tab") = State

\* C31 witness: a marker other than the open waypoint's got the keyboard
\* focus: one centring request on it, the open waypoint still open.
C31_Witness ==
  /\ lastCall = "markerFocus"
  /\ Len(effects) = 1
  /\ effects[1].type = "center"
  /\ \E w \in Waypoints :
       /\ markerIsOpen[w]
       /\ openWaypointContentIndex = Num(w)
       /\ overlay = [visible |-> TRUE, content |-> w]
       /\ effects[1].waypoint # w

\* C32: every registered waypoint has validated coordinates: whatever the
\* configured latitude and longitude, the waypoint's latitude is a number in
\* [-90, 90] and its longitude a number in [-180, 180].
C32_ValidatedCoordinates ==
  \A k \in DOMAIN waypoints :
    /\ waypoints[k].latitude.kind = "number"
    /\ waypoints[k].latitude.num >= LATITUDE_MIN
    /\ waypoints[k].latitude.num <= LATITUDE_MAX
    /\ waypoints[k].longitude.kind = "number"
    /\ waypoints[k].longitude.num >= LONGITUDE_MIN
    /\ waypoints[k].longitude.num <= LONGITUDE_MAX

\* C33: Button.forceState(active) ignores the disabled state: for a toggle
\* button, disabled or not, isActive() equals active after
\* forceState(active, true), and the click callback is called if and only if
\* skipCallback is false.
C33_ForceStateIgnoresDisabled ==
  \A active \in BOOLEAN, skipCallback \in BOOLEAN :
    LET r == ButtonForceState([button EXCEPT !.onClickCalls = 0], active, skipCallback)
    IN /\ r.onClickCalls = IF skipCallback THEN 0 ELSE 1
       /\ button.type = "toggle" /\ skipCallback => r.active = active

\* C34: navigation state and waypoint flags agree in every state reached by
\* marker activations, goBackward, goForward, reset and setCurrentState:
\* openIndex is i >= 0 exactly when waypoint i is the open waypoint, and
\* openIndex is -1 exactly when no waypoint is open.
C34_IndexAndFlagsAgree ==
  /\ \A w \in Waypoints : (openWaypointContentIndex = Num(w)) <=> markerIsOpen[w]
  /\ (openWaypointContentIndex = Num(-1)) <=> (\A w \in Waypoints : ~markerIsOpen[w])

\* C35: the mini-map button and the mini-map agree in every state reached by
\* clicks on the mini-map button and setCurrentState calls: the button is
\* active exactly when the mini-map is visible.
C35_MiniMapButtonAgrees ==
  userCanUseMiniMap => (minimapActive <=> miniMapVisible)

\* C36: navigation never gets stuck: in every reachable state with a
\* waypoint, states reached through setCurrentState included, whenever the
\* forward control is enabled goForward() changes openIndex (so that forward
\* and backward presses can open every waypoint).
C36_ForwardMakesProgress ==
  waypointCount > 0 /\ ~buttonDisabled.right
    => GoForward(State).openWaypointContentIndex # openWaypointContentIndex

\* C39: in every state reached by open requests, navigation, reset and
\* setCurrentState, the content overlay is visible exactly when some waypoint
\* is open.
C39_OverlayIffOpen ==
  overlay.visible <=> \E w \in Waypoints : markerIsOpen[w]

\* C39 witness: reset() has closed the one open waypoint and hidden the
\* overlay.
C39_Witness ==
  /\ lastCall = "reset"
  /\ ~overlay.visible
  /\ \A w \in Waypoints : ~markerIsOpen[w]
  /\ waypointCount = MaxWaypoints
  /\ ~buttonDisabled.right

\* C37: resize propagation terminates. A 'resize' of an embedded instance
\* is triggered on the story map (once, when the instance is attached and its
\* bundle connected) and on no embedded instance while it bubbles; a 'resize'
\* of the story map is triggered once on each attached instance of the
\* connected bundle and on no other; one signal makes a bounded number of
\* triggers whatever the number of instances, the dispatch never reaching
\* the depth at which it is cut off.
C37_ResizeTerminates ==
  LET attached(id) == observers[id].callbackRuns > 0 /\ overlay.content = id[1]
  IN /\ ~dispatch.exhausted
     /\ \A id \in EmbeddedInstances :
          LET r == TriggerInstanceResize(State, id, MaxDispatchDepth)
          IN /\ ~r.dispatch.exhausted
             /\ ~r.dispatch.bubblingUpwards
             /\ r.dispatch.main = IF attached(id) THEN 1 ELSE 0
             /\ \A other \in EmbeddedInstances :
                  Triggered(r.dispatch, other) = IF other = id THEN 1 ELSE 0
     /\ LET r == TriggerResize(State)
        IN /\ ~r.dispatch.exhausted
           /\ ~r.dispatch.bubblingUpwards
           /\ \A id \in EmbeddedInstances :
                Triggered(r.dispatch, id) = IF attached(id) THEN 1 ELSE 0
           /\ r.dispatch.main = 1 + Cardinality({id \in EmbeddedInstances : attached(id)})

\* C37 witness: 'resize' was triggered on the story map while two instances
\* of the open waypoint's bundle were attached: each got the event once and
\* each sent it up once.
C37_Witness ==
  /\ lastCall = "resize"
  /\ dispatch.main = 3
  /\ \E w \in Waypoints :
       /\ overlay.content = w
       /\ Cardinality({id \in EmbeddedInstances :
                         id[1] = w /\ Triggered(dispatch, id) = 1}) = 2
  /\ \E id \in EmbeddedInstances :
       observers[id].callbackRuns > 0 /\ Triggered(dispatch, id) = 0

\* C38: embedded content is attached at most once and only after its wrapper
\* became visible: the callback given to callOnceVisible has run at most once
\* and only when a report of the wrapper as intersecting had come in,
\* whatever reports come in, and a report that starts with an entry that is
\* not intersecting runs nothing.
C38_AttachedOnceWhenVisible ==
  \A id \in EmbeddedInstances :
    /\ observers[id].callbackRuns <= 1
    /\ observers[id].callbackRuns > 0 => observers[id].reported
    /\ observers[id].phase = "disconnected" <=> observers[id].callbackRuns = 1
    /\ \A entries \in ReportEntries :
         ~entries[1] =>
           ObserverCallback(State, id, entries).observers[id].callbackRuns
             = observers[id].callbackRuns

\* C38 witness: the wrapper of an instance was reported as not intersecting,
\* then as intersecting, and its callback has run once.
C38_Witness ==
  /\ lastCall = "intersectionReport"
  /\ \E id \in EmbeddedInstances :
       /\ observers[id] = [phase |-> "disconnected", callbackRuns |-> 1, reported |-> TRUE]
       /\ Triggered(dispatch, id) = 1
  /\ \E id \in EmbeddedInstances :
       observers[id] = [phase |-> "observing", callbackRuns |-> 0, reported |-> TRUE]

====
